---- MODULE Spec2Model ----
(***************************************************************************)
(* A model of BRONZESIM (src/src/bronzesim.py): the deterministic hash,    *)
(* the procedural world and its LRU chunk cache, the rule picker, the DSL  *)
(* parser's vocation block and the day stepper driven by main.             *)
(*                                                                         *)
(* Conventions.  Python floats are modelled as exact decimals scaled to    *)
(* integers: hunger and health in hundredths; fatigue, the thresholds of   *)
(* conditions and the values of rng_f01 in thousandths; renew rates in     *)
(* 1/10000.  The truncation int(...) of the pool arithmetic follows the    *)
(* doubles (RenewShort, InitShort); the accumulated rounding error of      *)
(* repeated float additions (hunger 0.7000000000000002 against 0.70) is    *)
(* not modelled.                                                           *)
(* 64-bit words are little-endian tuples of 8 bytes, 32-bit words tuples   *)
(* of 4 bytes (element 1 is the lowest byte).                              *)
(*                                                                         *)
(* In the day stepper the values the code derives from brz_hash_u32 (ages, *)
(* vocation rolls, valuations, spawn cells, settlement sites, rng_f01 and  *)
(* rng_u32) are draws from the sets named *Choices: any value of the set   *)
(* may come up, where the code computes one from the seed, the position    *)
(* and the day.  An agent's position is not tracked and map dumps are off  *)
(* (map_every_days = 0).  Lists are sequences: the object with id k is     *)
(* element k + 1.  An Optional value is <<>> for None and <<v>> otherwise. *)
(*                                                                         *)
(* The module holds eight specifications over one set of variables:        *)
(* SpecCache (the chunk cache), SpecEvict (the chunk cache beside a second *)
(* cache that never evicts), Spec (main and the day stepper),              *)
(* SpecChoose (one call of choose_task), SpecParse (the parser of the      *)
(* vocations block followed by choose_task on its result), SpecFile        *)
(* (parse_bronze_file, one round of its loops per step, under weak         *)
(* fairness) and SpecOps (single calls of the operations: gather, craft,   *)
(* eat, trade, apprenticeship, cond_eval, role_switching, the part of      *)
(* sim_step that follows eat and apprenticeship, sim_step as a whole,      *)
(* sim_init_from_cfg and parse_vocations_block) and SpecGen (one cell of   *)
(* _generate_chunk).  Each keeps the variables of the others at their idle *)
(* values.                                                                 *)
(***************************************************************************)
EXTENDS Integers, Sequences, FiniteSets, TLC

\* ------------------------------------------------------------------------
\* Constants and "enums"
\* ------------------------------------------------------------------------
WORLD_CELLS_X == 52800
WORLD_CELLS_Y == 52800
CHUNK_SIZE == 64
CHUNK_CELLS == CHUNK_SIZE * CHUNK_SIZE

TAG_COAST == 1
TAG_BEACH == 2
TAG_FOREST == 4
TAG_MARSH == 8
TAG_HILL == 16
TAG_RIVER == 32
TAG_FIELD == 64
TAG_SETTLE == 128

RES_FISH == 0
RES_GRAIN == 1
RES_WOOD == 2
RES_CLAY == 3
RES_COPPER == 4
RES_TIN == 5
RES_FIRE == 6
RES_PLANT_FIBER == 7
RES_CATTLE == 8
RES_SHEEP == 9
RES_PIG == 10
RES_CHARCOAL == 11
RES_RELIGION == 12
RES_TRIBALISM == 13
RES_MAX == 14

ITEM_FISH == 0
ITEM_GRAIN == 1
ITEM_WOOD == 2
ITEM_CLAY == 3
ITEM_COPPER == 4
ITEM_TIN == 5
ITEM_BRONZE == 6
ITEM_TOOL == 7
ITEM_POT == 8
ITEM_MAX == 9

SEASON_SPRING == 0
SEASON_SUMMER == 1
SEASON_AUTUMN == 2
SEASON_WINTER == 3
SEASON_ANY == 255

CMP_ANY == 0
CMP_GT == 1
CMP_LT == 2
CMP_GE == 3
CMP_LE == 4

OP_MOVE_TO == 0
OP_GATHER == 1
OP_CRAFT == 2
OP_TRADE == 3
OP_REST == 4
OP_ROAM == 5

\* ------------------------------------------------------------------------
\* Deterministic hashing (64-bit arithmetic on byte tuples)
\* ------------------------------------------------------------------------
RECURSIVE XorBits(_, _, _)
XorBits(a, b, n) ==
    IF n = 0 THEN 0
    ELSE (((a % 2) + (b % 2)) % 2) + 2 * XorBits(a \div 2, b \div 2, n - 1)

RECURSIVE Pow2(_)
Pow2(n) == IF n = 0 THEN 1 ELSE 2 * Pow2(n - 1)

\* a 32-bit word from a non-negative integer below 2^31
U32(v) == <<v % 256, (v \div 256) % 256, (v \div 65536) % 256, (v \div 16777216) % 256>>

Xor32(a, b) ==
    <<XorBits(a[1], b[1], 8), XorBits(a[2], b[2], 8),
      XorBits(a[3], b[3], 8), XorBits(a[4], b[4], 8)>>

Xor64(a, b) ==
    <<XorBits(a[1], b[1], 8), XorBits(a[2], b[2], 8),
      XorBits(a[3], b[3], 8), XorBits(a[4], b[4], 8),
      XorBits(a[5], b[5], 8), XorBits(a[6], b[6], 8),
      XorBits(a[7], b[7], 8), XorBits(a[8], b[8], 8)>>

\* byte i of x >> (8*k + s) for a 64-bit word x, 0 <= s < 8
ShrByte(x, k, s, i) ==
    LET lo == IF i + k > 8 THEN 0 ELSE x[i + k]
        hi == IF i + k + 1 > 8 THEN 0 ELSE x[i + k + 1]
    IN  (lo \div Pow2(s)) + (hi % Pow2(s)) * Pow2(8 - s)

Shr64(x, k, s) ==
    <<ShrByte(x, k, s, 1), ShrByte(x, k, s, 2), ShrByte(x, k, s, 3),
      ShrByte(x, k, s, 4), ShrByte(x, k, s, 5), ShrByte(x, k, s, 6),
      ShrByte(x, k, s, 7), ShrByte(x, k, s, 8)>>

RECURSIVE AddFrom(_, _, _, _)
\* the bytes i..8 of a + b, given the carry into byte i
AddFrom(a, b, i, carry) ==
    IF i > 8 THEN <<>>
    ELSE CHOOSE r \in {<<t % 256>> \o AddFrom(a, b, i + 1, t \div 256) :
                         t \in {a[i] + b[i] + carry}} : TRUE

Add64(a, b) == AddFrom(a, b, 1, 0)

RECURSIVE MulCol(_, _, _, _)
\* sum of a[i] * b[k+1-i] for i in 1..j
MulCol(a, b, k, j) ==
    IF j < 1 THEN 0 ELSE a[j] * b[k + 1 - j] + MulCol(a, b, k, j - 1)

RECURSIVE MulFrom(_, _, _, _)
\* the bytes k..8 of a * b (mod 2^64), given the carry into column k
MulFrom(a, b, k, carry) ==
    IF k > 8 THEN <<>>
    ELSE CHOOSE r \in {<<t % 256>> \o MulFrom(a, b, k + 1, t \div 256) :
                         t \in {MulCol(a, b, k, k) + carry}} : TRUE

Mul64(a, b) == MulFrom(a, b, 1, 0)

\* 0x9e3779b97f4a7c15, 0xbf58476d1ce4e5b9, 0x94d049bb133111eb
SM_GAMMA == <<21, 124, 74, 127, 185, 121, 55, 158>>
SM_MUL1 == <<185, 229, 228, 28, 109, 71, 88, 191>>
SM_MUL2 == <<235, 17, 49, 19, 187, 73, 208, 148>>

\* x ^ (x >> (8*k + s))
XorShift(x, k, s) == Xor64(x, Shr64(x, k, s))

\* The steps of splitmix64 are chained through singleton sets so that each
\* intermediate word is a value, computed once.
brz_splitmix64(x0) ==
    CHOOSE r \in
        {XorShift(x3, 3, 7) :
            x3 \in {Mul64(y2, SM_MUL2) :
                y2 \in {XorShift(x2, 3, 3) :
                    x2 \in {Mul64(y1, SM_MUL1) :
                        y1 \in {XorShift(x1, 3, 6) :
                            x1 \in {Add64(x, SM_GAMMA) : x \in {x0}}}}}}} : TRUE

\* a, b, c are 32-bit words; the result is the low 32 bits
brz_hash_u32(a, b, c) ==
    LET x == <<b[1], b[2], XorBits(b[3], c[1], 8), XorBits(b[4], c[2], 8),
               XorBits(a[1], c[3], 8), XorBits(a[2], c[4], 8), a[3], a[4]>>
    IN  CHOOSE r \in {<<h[1], h[2], h[3], h[4]>> : h \in {brz_splitmix64(x)}} : TRUE

clamp_u8(v) == IF v < 0 THEN 0 ELSE IF v > 255 THEN 255 ELSE v

\* ------------------------------------------------------------------------
\* Bounds of the model
\* ------------------------------------------------------------------------
\* largest max_chunks argument a ChunkCache is built with
MaxCap == 2
\* regen_loaded passes in one run of the cache
MaxRegen == 1

\* world seeds of the cache runs; chunk keys looked up; the cells of a
\* chunk (flat indices into its 64x64 arrays) whose contents are tracked
Seeds == {6, 1337}
Keys == {<<0, 0>>, <<1, 0>>, <<15, 15>>}
ObsIdx == {0, 130, 2600}
NoKey == <<-1, -1>>

\* ------------------------------------------------------------------------
\* World generation (procedural)
\* ------------------------------------------------------------------------
HasTag(tags, bit) == (tags \div bit) % 2 = 1
OrTag(tags, bit) == IF HasTag(tags, bit) THEN tags ELSE tags + bit

SALT_BEACH == <<52, 18, 239, 190>>
SALT_FOREST == <<26, 161, 17, 17>>
SALT_HILL == <<43, 178, 34, 34>>
SALT_MARSH == <<60, 195, 51, 51>>
SALT_RIVER == <<61, 123, 161, 82>>
SALT_SETTLE == <<173, 30, 119, 94>>
SALT_BASE == <<221, 221, 153, 153>>

noise01(seed, x, y, salt) ==
    brz_hash_u32(U32(x), U32(y), Xor32(U32(seed), salt))[1]

is_coast_cell(x, y) ==
    (x < 2) \/ (y < 2) \/ (x >= WORLD_CELLS_X - 2) \/ (y >= WORLD_CELLS_Y - 2)

world_cell_tags(seed, x, y) ==
    LET t0 == IF is_coast_cell(x, y) THEN TAG_COAST ELSE 0
        t1 == IF ~HasTag(t0, TAG_COAST)
                 /\ (x < 3 \/ y < 3 \/ x > WORLD_CELLS_X - 4 \/ y > WORLD_CELLS_Y - 4)
                 /\ noise01(seed, x, y, SALT_BEACH) < 140
              THEN OrTag(t0, TAG_BEACH) ELSE t0
        n1 == noise01(seed, x, y, SALT_FOREST)
        n2 == noise01(seed, x, y, SALT_HILL)
        n3 == noise01(seed, x, y, SALT_MARSH)
        t2 == IF n1 > 150 THEN OrTag(t1, TAG_FOREST) ELSE t1
        t3 == IF n2 > 200 THEN OrTag(t2, TAG_HILL) ELSE t2
        t4 == IF n3 > 215 THEN OrTag(t3, TAG_MARSH) ELSE t3
        rv == noise01(seed, x \div 8, y \div 8, SALT_RIVER)
        t5 == IF rv > 245 THEN OrTag(t4, TAG_RIVER) ELSE t4
        sx == (x \div 2000) * 2000 + 1000
        sy == (y \div 2000) * 2000 + 1000
        sc == noise01(seed, sx, sy, SALT_SETTLE)
        dx == x - sx
        dy == y - sy
        d2 == dx * dx + dy * dy
        t6 == IF sc > 240 /\ d2 < 70 * 70 THEN OrTag(t5, TAG_SETTLE) ELSE t5
        t7 == IF sc > 240 /\ d2 < 250 * 250 THEN OrTag(t6, TAG_FIELD) ELSE t6
    IN  t7

\* the body of world_cell_res0 after its first line, for the value of base
CellRes0(base, rk, tags) ==
        CASE rk = RES_FISH ->
               IF HasTag(tags, TAG_COAST) THEN clamp_u8(120 + base \div 2) ELSE 0
          [] rk = RES_GRAIN ->
               IF HasTag(tags, TAG_FIELD) THEN clamp_u8(80 + base \div 3) ELSE 0
          [] rk = RES_WOOD ->
               IF HasTag(tags, TAG_FOREST) THEN clamp_u8(90 + base \div 3) ELSE 0
          [] rk = RES_CLAY ->
               IF HasTag(tags, TAG_RIVER) \/ HasTag(tags, TAG_MARSH)
               THEN clamp_u8(60 + base \div 4) ELSE 0
          [] rk = RES_COPPER ->
               IF HasTag(tags, TAG_HILL) THEN (IF base > 240 THEN 40 ELSE 5) ELSE 0
          [] rk = RES_TIN ->
               IF HasTag(tags, TAG_HILL) THEN (IF base > 250 THEN 25 ELSE 0) ELSE 0
          [] rk = RES_FIRE ->
               IF HasTag(tags, TAG_SETTLE) THEN clamp_u8(180 + base \div 4) ELSE 0
          [] rk = RES_PLANT_FIBER ->
               IF HasTag(tags, TAG_MARSH) \/ HasTag(tags, TAG_FIELD)
               THEN clamp_u8(70 + base \div 3) ELSE 0
          [] rk = RES_CATTLE ->
               IF HasTag(tags, TAG_FIELD) THEN clamp_u8(40 + base \div 4) ELSE 0
          [] rk = RES_SHEEP ->
               IF HasTag(tags, TAG_FIELD) THEN clamp_u8(35 + base \div 4) ELSE 0
          [] rk = RES_PIG ->
               IF HasTag(tags, TAG_FIELD) THEN clamp_u8(30 + base \div 4) ELSE 0
          [] rk = RES_CHARCOAL ->
               IF HasTag(tags, TAG_FOREST) THEN clamp_u8(25 + base \div 5) ELSE 0
          [] rk = RES_RELIGION ->
               IF HasTag(tags, TAG_SETTLE) THEN clamp_u8(60 + base \div 5) ELSE 0
          [] rk = RES_TRIBALISM ->
               IF HasTag(tags, TAG_SETTLE) THEN clamp_u8(20 + base \div 8) ELSE 0
          [] OTHER -> 0

world_cell_res0(seed, x, y, rk, tags) ==
    CellRes0(noise01(seed, x, y, SALT_BASE), rk, tags)

world_season_kind(d0) ==
    LET d == d0 % 360
    IN  IF d < 90 THEN SEASON_SPRING
        ELSE IF d < 180 THEN SEASON_SUMMER
        ELSE IF d < 270 THEN SEASON_AUTUMN
        ELSE SEASON_WINTER


\* ------------------------------------------------------------------------
\* Default configuration (ParsedConfig): renew rates in 1/10000 per day
\* ------------------------------------------------------------------------
DefaultRenew ==
    [rk \in 0..(RES_MAX - 1) |->
        CASE rk = RES_FISH -> 800
          [] rk = RES_GRAIN -> 600
          [] rk = RES_WOOD -> 300
          [] rk = RES_CLAY -> 200
          [] rk = RES_COPPER -> 50
          [] rk = RES_TIN -> 20
          [] rk = RES_FIRE -> 1000
          [] rk = RES_PLANT_FIBER -> 400
          [] rk = RES_CATTLE -> 100
          [] rk = RES_SHEEP -> 100
          [] rk = RES_PIG -> 100
          [] rk = RES_CHARCOAL -> 50
          [] rk = RES_RELIGION -> 20
          [] OTHER -> 5]

\* seasonal multipliers in percent
fishMul(season) == IF season = SEASON_WINTER THEN 70 ELSE 100
grainMul(season) ==
    IF season = SEASON_WINTER THEN 30
    ELSE IF season \in {SEASON_SUMMER, SEASON_AUTUMN} THEN 100 ELSE 70

\* ------------------------------------------------------------------------
\* Chunk cache (LRU dict)
\* ------------------------------------------------------------------------
VARIABLES
    cache_seed,     \* ChunkCache.gen.seed
    world,          \* the world of cache_seed: tags and base noise per tracked cell
    max_chunks,     \* ChunkCache.max_chunks
    lru,            \* ChunkCache._lru: chunks from least to most recently used
    live_chunks,    \* ChunkCache.live_chunks
    renew_per_day,  \* ChunkCache.spec.res_model.renew_per_day
    regens,         \* regen_loaded passes so far
    useOrder,       \* history: every key ever looked up, by last get_chunk access
    firstMat,       \* history: key -> the chunk of its first materialization
    lastOp,         \* history: the last cache operation and what it returned
    twin            \* SpecEvict: a second ChunkCache of the same seed, with
                    \* room for every key, that is given the same calls: its
                    \* _lru and the cell its last lookup returned

cacheVars ==
    <<cache_seed, world, max_chunks, lru, live_chunks, renew_per_day, regens,
      useOrder, firstMat, lastOp, twin>>

VARIABLES
    pc,             \* main: "start", "loop" (the day loop) or "exit"
    cfg,            \* main: the ParsedConfig returned by parse_bronze_file
    sim,            \* main: the Sim value, <<>> before sim_init_from_cfg
    reports,        \* the status reports written to stdout, in order
    snapshots,      \* the snapshot files written, in order
    exit_code,      \* the return value of main, -1 while it runs
    preSwitch       \* history: vocation_id of every agent when the last
                    \* sim_step entered role_switching

simVars == <<pc, cfg, sim, reports, snapshots, exit_code, preSwitch>>

VARIABLES
    ct_in,          \* the call looked at: choose_task's vocation, agent, day and
                    \* random draws, or the simulator and op of a single operation
    ct_out          \* what the call computed, <<>> before it

chooseVars == <<ct_in, ct_out>>

VARIABLES
    toks,           \* Lexer: the token stream of the source text
    pos,            \* Lexer: number of tokens consumed
    pstate,         \* parse_vocations_block: "start", "vocs", "done" or "error"
    voc_table,      \* cfg.voc_table: the vocations finished so far
    rawVocs         \* the same vocations as they were before the post-fix

parseVars == <<toks, pos, pstate, voc_table, rawVocs>>

vars == <<cacheVars, simVars, chooseVars, parseVars>>

ZeroPlanes == [rk \in 0..(RES_MAX - 1) |-> 0]

\* mutant of NewChunk: the buffer of the least recently used chunk is recycled
\* without being cleared
NewChunk_Recycled(cx, cy) ==
    IF lru = <<>>
    THEN [cx |-> cx, cy |-> cy,
          terrain |-> [idx \in ObsIdx |-> 0],
          res |-> [rk \in 0..(RES_MAX - 1) |-> [idx \in ObsIdx |-> 0]]]
    ELSE [Head(lru) EXCEPT !.cx = cx, !.cy = cy]

\* Chunk(cx, cy): the dataclass defaults, all-zero terrain and planes
NewChunk(cx, cy) ==
    [cx |-> cx, cy |-> cy,
     terrain |-> [idx \in ObsIdx |-> 0],
     res |-> [rk \in 0..(RES_MAX - 1) |-> [idx \in ObsIdx |-> 0]]]

\* mutant of GenCellRes: a marsh that is no field gets no plant fiber
GenCellRes_DryMarsh(tags, base, r0) ==
    [rk \in DOMAIN r0 |->
        IF rk = RES_PLANT_FIBER /\ ~HasTag(tags, TAG_FIELD) THEN r0[rk]
        ELSE CellRes0(base, rk, tags)]

\* the resource writes of one cell of _generate_chunk, onto planes r0
GenCellRes(tags, base, r0) ==
    LET r1 == IF HasTag(tags, TAG_COAST)
              THEN [r0 EXCEPT ![RES_FISH] = clamp_u8(120 + base \div 2)] ELSE r0
        r2 == IF HasTag(tags, TAG_FIELD)
              THEN [r1 EXCEPT ![RES_GRAIN] = clamp_u8(80 + base \div 3),
                              ![RES_PLANT_FIBER] = clamp_u8(70 + base \div 3),
                              ![RES_CATTLE] = clamp_u8(40 + base \div 4),
                              ![RES_SHEEP] = clamp_u8(35 + base \div 4),
                              ![RES_PIG] = clamp_u8(30 + base \div 4)]
              ELSE r1
        r3 == IF HasTag(tags, TAG_FOREST)
              THEN [r2 EXCEPT ![RES_WOOD] = clamp_u8(90 + base \div 3),
                              ![RES_CHARCOAL] = clamp_u8(25 + base \div 5)]
              ELSE r2
        r4 == IF HasTag(tags, TAG_RIVER) \/ HasTag(tags, TAG_MARSH)
              THEN LET c == [r3 EXCEPT ![RES_CLAY] = clamp_u8(60 + base \div 4)]
                   IN  IF HasTag(tags, TAG_MARSH) /\ c[RES_PLANT_FIBER] = 0
                       THEN [c EXCEPT ![RES_PLANT_FIBER] = clamp_u8(70 + base \div 3)]
                       ELSE c
              ELSE r3
        r5 == IF HasTag(tags, TAG_HILL)
              THEN [r4 EXCEPT ![RES_COPPER] = IF base > 240 THEN 40 ELSE 5,
                              ![RES_TIN] = IF base > 250 THEN 25 ELSE 0]
              ELSE r4
        r6 == IF HasTag(tags, TAG_SETTLE)
              THEN [r5 EXCEPT ![RES_FIRE] = clamp_u8(180 + base \div 4),
                              ![RES_RELIGION] = clamp_u8(60 + base \div 5),
                              ![RES_TRIBALISM] = clamp_u8(20 + base \div 8)]
              ELSE r5
    IN  r6

\* world coordinates of cell idx of chunk (cx, cy)
CellX(cx, idx) == cx * CHUNK_SIZE + (idx % CHUNK_SIZE)
CellY(cy, idx) == cy * CHUNK_SIZE + (idx \div CHUNK_SIZE)

\* the terrain tags and the base noise of every tracked cell of the world
\* of a seed: world_cell_tags and the inlined noise of _generate_chunk
WorldCells(seed) ==
    [k \in Keys |-> [idx \in ObsIdx |->
        [tags |-> world_cell_tags(seed, CellX(k[1], idx), CellY(k[2], idx)),
         base |-> brz_hash_u32(U32(CellX(k[1], idx)), U32(CellY(k[2], idx)),
                               Xor32(U32(seed), SALT_BASE))[1]]]]

\* ChunkCache._generate_chunk, on the tracked cells
GenerateChunk(seed, cx, cy) ==
    LET ch == NewChunk(cx, cy)
        w == world[<<cx, cy>>]
        cell == [idx \in ObsIdx |->
                    GenCellRes(w[idx].tags, w[idx].base,
                               [rk \in 0..(RES_MAX - 1) |-> ch.res[rk][idx]])]
    IN  [cx |-> cx, cy |-> cy,
         terrain |-> [idx \in ObsIdx |-> w[idx].tags],
         res |-> [rk \in 0..(RES_MAX - 1) |-> [idx \in ObsIdx |-> cell[idx][rk]]]]

KeyOf(ch) == <<ch.cx, ch.cy>>
LruKeys(l) == {KeyOf(l[i]) : i \in 1..Len(l)}
LruIndex(l, key) == CHOOSE i \in 1..Len(l) : KeyOf(l[i]) = key
Without(l, i) == SubSeq(l, 1, i - 1) \o SubSeq(l, i + 1, Len(l))

\* mutant of MoveToEnd: a hit leaves the order alone (FIFO eviction)
MoveToEnd_Stay(l, key) == l

\* OrderedDict.move_to_end(key, last=True)
MoveToEnd(l, key) ==
    LET i == LruIndex(l, key) IN Append(Without(l, i), l[i])

\* mutant of EvictLRU: the eviction test is off by one
EvictLRU_OffByOne(l, cap) == IF Len(l) > cap + 1 THEN Tail(l) ELSE l

\* if len(self._lru) > self.max_chunks: self._lru.popitem(last=False)
EvictLRU(l, cap) == IF Len(l) > cap THEN Tail(l) ELSE l

\* history bookkeeping: key becomes the most recently accessed
Touch(order, key) ==
    Append(SelectSeq(order, LAMBDA k : k # key), key)

\* the cell a lookup returns: terrain and the 14 densities at idx
CellOf(ch, idx) ==
    [terrain |-> ch.terrain[idx], res |-> [rk \in 0..(RES_MAX - 1) |-> ch.res[rk][idx]]]

\* max_chunks of the second cache: no lookup of Keys evicts
TwinCap == Cardinality(Keys)

\* get_chunk and get_cell on the second cache
TwinGet(t, cx, cy, idx) ==
    LET key == <<cx, cy>>
        l == IF key \in LruKeys(t.lru) THEN MoveToEnd(t.lru, key)
             ELSE EvictLRU(Append(t.lru, GenerateChunk(cache_seed, cx, cy)), TwinCap)
    IN  [lru |-> l, cell |-> IF idx < 0 THEN <<>> ELSE CellOf(l[Len(l)], idx)]

\* ChunkCache.get_chunk as a state change; idx is the cell asked for by
\* get_cell, or -1 for a bare get_chunk
GetChunkStep(cx, cy, idx) ==
    LET key == <<cx, cy>>
    IN  IF key \in LruKeys(lru)
        THEN /\ lru' = MoveToEnd(lru, key)
             /\ UNCHANGED <<live_chunks, firstMat>>
             /\ useOrder' = Touch(useOrder, key)
             /\ lastOp' = [kind |-> "hit", key |-> key, idx |-> idx, evicted |-> NoKey,
                           again |-> FALSE,
                           cell |-> IF idx < 0 THEN <<>>
                                    ELSE CellOf(lru[LruIndex(lru, key)], idx)]
        ELSE LET ch == GenerateChunk(cache_seed, cx, cy)
                 ins == Append(lru, ch)
                 out == EvictLRU(ins, max_chunks)
             IN  /\ lru' = out
                 /\ live_chunks' = Len(out)
                 /\ useOrder' = Touch(useOrder, key)
                 /\ firstMat' = IF key \in DOMAIN firstMat THEN firstMat
                                ELSE [k \in DOMAIN firstMat \cup {key} |->
                                        IF k = key THEN ch ELSE firstMat[k]]
                 /\ lastOp' = [kind |-> "miss", key |-> key, idx |-> idx,
                               again |-> key \in DOMAIN firstMat,
                               evicted |-> IF Len(out) < Len(ins)
                                           THEN KeyOf(Head(ins)) ELSE NoKey,
                               cell |-> IF idx < 0 THEN <<>> ELSE CellOf(ch, idx)]

GetChunk(cx, cy) ==
    /\ GetChunkStep(cx, cy, -1)
    /\ UNCHANGED <<cache_seed, world, max_chunks, renew_per_day, regens, twin>>
    /\ UNCHANGED <<simVars, chooseVars, parseVars>>

\* ChunkCache.get_cell(x, y)
GetCell(x, y) ==
    LET cx == x \div CHUNK_SIZE
        cy == y \div CHUNK_SIZE
        idx == (y % CHUNK_SIZE) * CHUNK_SIZE + (x % CHUNK_SIZE)
    IN  /\ GetChunkStep(cx, cy, idx)
        /\ UNCHANGED <<cache_seed, world, max_chunks, renew_per_day, regens, twin>>
    /\ UNCHANGED <<simVars, chooseVars, parseVars>>

\* ChunkCache.get_cell(x, y) on the cache and on the second cache
TwinGetCell(x, y) ==
    LET cx == x \div CHUNK_SIZE
        cy == y \div CHUNK_SIZE
        idx == (y % CHUNK_SIZE) * CHUNK_SIZE + (x % CHUNK_SIZE)
    IN  /\ GetChunkStep(cx, cy, idx)
        /\ twin' = TwinGet(twin, cx, cy, idx)
        /\ UNCHANGED <<cache_seed, world, max_chunks, renew_per_day, regens>>
    /\ UNCHANGED <<simVars, chooseVars, parseVars>>

\* int(renew_per_day[rk] * mul * 255.0), mul in percent
RegenAdd(renew, rk, mul) == (renew[rk] * mul * 255) \div 1000000

\* mutant of RegenCell: the sums are stored without clamp_u8
RegenCell_NoClamp(tags, r0, renew, season) ==
    [rk \in DOMAIN r0 |->
        IF CellRes0(0, rk, tags) > 0 \/ (rk \in {RES_COPPER, RES_TIN} /\ HasTag(tags, TAG_HILL))
        THEN r0[rk] + RegenAdd(renew, rk,
                               IF rk = RES_FISH THEN fishMul(season)
                               ELSE IF rk = RES_GRAIN THEN grainMul(season) ELSE 100)
        ELSE r0[rk]]

\* one cell of regen_loaded: planes r0 of a cell with the given tags
RegenCell(tags, r0, renew, season) ==
    LET add(r, rk, mul) == [r EXCEPT ![rk] = clamp_u8(@ + RegenAdd(renew, rk, mul))]
        r1 == IF HasTag(tags, TAG_SETTLE)
              THEN add(add(add(r0, RES_FIRE, 100), RES_RELIGION, 100), RES_TRIBALISM, 100)
              ELSE r0
        r2 == IF HasTag(tags, TAG_COAST) THEN add(r1, RES_FISH, fishMul(season)) ELSE r1
        r3 == IF HasTag(tags, TAG_FIELD) THEN add(r2, RES_GRAIN, grainMul(season)) ELSE r2
        r4 == IF HasTag(tags, TAG_FIELD)
              THEN add(add(add(add(r3, RES_PLANT_FIBER, 100), RES_CATTLE, 100),
                           RES_SHEEP, 100), RES_PIG, 100)
              ELSE r3
        r5 == IF HasTag(tags, TAG_FOREST) THEN add(r4, RES_WOOD, 100) ELSE r4
        r6 == IF HasTag(tags, TAG_FOREST) THEN add(r5, RES_CHARCOAL, 100) ELSE r5
        r7 == IF HasTag(tags, TAG_RIVER) \/ HasTag(tags, TAG_MARSH)
              THEN add(r6, RES_CLAY, 100) ELSE r6
        r8 == IF HasTag(tags, TAG_HILL)
              THEN add(add(r7, RES_COPPER, 100), RES_TIN, 100) ELSE r7
    IN  r8

RegenChunk(ch, renew, season) ==
    LET cell == [idx \in ObsIdx |->
                    RegenCell(ch.terrain[idx],
                              [rk \in 0..(RES_MAX - 1) |-> ch.res[rk][idx]],
                              renew, season)]
    IN  [ch EXCEPT !.res = [rk \in 0..(RES_MAX - 1) |->
                              [idx \in ObsIdx |-> cell[idx][rk]]]]

\* ChunkCache.regen_loaded(season) on the cache and on the second cache
TwinRegenLoaded(season) ==
    /\ regens < MaxRegen
    /\ lru' = [i \in 1..Len(lru) |-> RegenChunk(lru[i], renew_per_day, season)]
    /\ twin' = [lru |-> [i \in 1..Len(twin.lru) |->
                            RegenChunk(twin.lru[i], renew_per_day, season)],
                cell |-> <<>>]
    /\ regens' = regens + 1
    /\ lastOp' = [kind |-> "regen", key |-> NoKey, idx |-> -1, evicted |-> NoKey,
                  again |-> FALSE,
                  cell |-> <<>>]
    /\ UNCHANGED <<cache_seed, world, max_chunks, live_chunks, renew_per_day, useOrder, firstMat>>
    /\ UNCHANGED <<simVars, chooseVars, parseVars>>

\* ChunkCache.regen_loaded(season)
RegenLoaded(season) ==
    /\ regens < MaxRegen
    /\ lru' = [i \in 1..Len(lru) |-> RegenChunk(lru[i], renew_per_day, season)]
    /\ twin' = twin
    /\ regens' = regens + 1
    /\ lastOp' = [kind |-> "regen", key |-> NoKey, idx |-> -1, evicted |-> NoKey,
                  again |-> FALSE,
                  cell |-> <<>>]
    /\ UNCHANGED <<cache_seed, world, max_chunks, live_chunks, renew_per_day, useOrder, firstMat>>
    /\ UNCHANGED <<simVars, chooseVars, parseVars>>

\* ChunkCache.__init__(max_chunks, gen, spec)
InitCache ==
    /\ cache_seed \in Seeds
    /\ world = WorldCells(cache_seed)
    /\ \E arg \in 0..MaxCap : max_chunks = IF arg > 1 THEN arg ELSE 1
    /\ lru = <<>>
    /\ live_chunks = 0
    /\ renew_per_day = DefaultRenew
    /\ regens = 0
    /\ useOrder = <<>>
    /\ firstMat = <<>>
    /\ lastOp = [kind |-> "init", key |-> NoKey, idx |-> -1, evicted |-> NoKey,
                 again |-> FALSE,
                 cell |-> <<>>]
    /\ twin = [lru |-> <<>>, cell |-> <<>>]

NextCache ==
    \/ \E k \in Keys : GetChunk(k[1], k[2])
    \/ \E k \in Keys, idx \in ObsIdx :
          GetCell(k[1] * CHUNK_SIZE + (idx % CHUNK_SIZE),
                  k[2] * CHUNK_SIZE + (idx \div CHUNK_SIZE))
    \/ \E season \in {SEASON_SPRING, SEASON_SUMMER, SEASON_AUTUMN, SEASON_WINTER} :
          RegenLoaded(season)

\* ------------------------------------------------------------------------
\* The parts of the state a specification does not use stay at these values
\* ------------------------------------------------------------------------
CacheOff ==
    /\ cache_seed = 0
    /\ world = <<>>
    /\ max_chunks = 1
    /\ lru = <<>>
    /\ live_chunks = 0
    /\ renew_per_day = DefaultRenew
    /\ regens = 0
    /\ useOrder = <<>>
    /\ firstMat = <<>>
    /\ lastOp = [kind |-> "init", key |-> NoKey, idx |-> -1, evicted |-> NoKey,
                 again |-> FALSE,
                 cell |-> <<>>]
    /\ twin = [lru |-> <<>>, cell |-> <<>>]

SimOff ==
    /\ pc = "off"
    /\ cfg = <<>>
    /\ sim = <<>>
    /\ reports = <<>>
    /\ snapshots = <<>>
    /\ exit_code = -1
    /\ preSwitch = <<>>

ChooseOff ==
    /\ ct_in = <<>>
    /\ ct_out = <<>>

ParseOff ==
    /\ toks = <<>>
    /\ pos = 0
    /\ pstate = "off"
    /\ voc_table = <<>>
    /\ rawVocs = <<>>

CacheStart == InitCache /\ SimOff /\ ChooseOff /\ ParseOff

SpecCache == CacheStart /\ [][NextCache]_vars

\* two caches of one seed, the second with room for every chunk, that are
\* given the same get_cell and regen_loaded calls (SpecEvict)
NextEvict ==
    \/ \E k \in Keys, idx \in ObsIdx :
          TwinGetCell(k[1] * CHUNK_SIZE + (idx % CHUNK_SIZE),
                      k[2] * CHUNK_SIZE + (idx \div CHUNK_SIZE))
    \/ \E season \in {SEASON_SPRING, SEASON_SUMMER, SEASON_AUTUMN, SEASON_WINTER} :
          TwinRegenLoaded(season)

EvictStart == InitCache /\ SimOff /\ ChooseOff /\ ParseOff

SpecEvict == EvictStart /\ [][NextEvict]_vars

\* ------------------------------------------------------------------------
\* DSL runtime structures
\* ------------------------------------------------------------------------
\* Condition(): hunger_threshold, fatigue_threshold and prob in thousandths
Condition ==
    [has_hunger |-> FALSE, hunger_threshold |-> 0,
     has_fatigue |-> FALSE, fatigue_threshold |-> 0,
     season_eq |-> SEASON_ANY,
     inv_item |-> <<>>, inv_cmp |-> <<>>, inv_value |-> <<>>,
     has_prob |-> FALSE, prob |-> 0]

OpDef(kind, arg_i, arg_j) == [kind |-> kind, arg_i |-> arg_i, arg_j |-> arg_j]
TaskDef(name, ops) == [name |-> name, ops |-> ops]
RuleDef(name, cond, task_name, weight) ==
    [name |-> name, cond |-> cond, task_name |-> task_name, weight |-> weight]
VocationDef(name, tasks, rules) == [name |-> name, tasks |-> tasks, rules |-> rules]

\* VocationTable.find: the id of the first vocation with that name, or -1.
\* Vocation id v is element v + 1 of the sequence.
find(vocations, name) ==
    IF \E i \in 1..Len(vocations) : vocations[i].name = name
    THEN (CHOOSE i \in 1..Len(vocations) :
             /\ vocations[i].name = name
             /\ \A j \in 1..(i - 1) : vocations[j].name # name) - 1
    ELSE -1

\* VocationTable.get: <<v>> for the vocation, <<>> for None
get(vocations, vid) ==
    IF 0 <= vid /\ vid < Len(vocations) THEN <<vocations[vid + 1]>> ELSE <<>>

\* ------------------------------------------------------------------------
\* Simulation: what one agent does.  hunger and health are in hundredths,
\* fatigue in thousandths, settlement valuations in thousandths.  Agent,
\* household and settlement number k is element k + 1 of its sequence.
\* ------------------------------------------------------------------------
Items == 0..(ITEM_MAX - 1)
Resources == 0..(RES_MAX - 1)

\* Agent(): the dataclass defaults
Agent ==
    [x |-> 0, y |-> 0, vocation_id |-> -1, age |-> 0, household_id |-> 0,
     inv |-> [it \in Items |-> 0], hunger |-> 0, fatigue |-> 0, health |-> 100]

\* mutant of move_to_tag: the agent takes one step east
move_to_tag_Walk(a, want_tag, radius) ==
    [a EXCEPT !.fatigue = @ + 2, !.x = @ + 1]

move_to_tag(a, want_tag, radius) == [a EXCEPT !.fatigue = @ + 2]

roam(a, steps) == [a EXCEPT !.fatigue = @ + steps]

\* mutant of gather: the pool does not limit what is taken
gather_NoLimit(pool, rk, want_units) ==
    [take |-> want_units, pool |-> [pool EXCEPT ![rk] = @ - want_units * 20]]

\* mutant of craft_unit: bronze is cast without looking at the wood
craft_unit_NoWood(a, item) ==
    IF item = ITEM_BRONZE /\ a.inv[ITEM_COPPER] >= 1 /\ a.inv[ITEM_TIN] >= 1
    THEN [a EXCEPT !.inv[ITEM_COPPER] = @ - 1, !.inv[ITEM_TIN] = @ - 1,
                   !.inv[ITEM_WOOD] = @ - 2, !.inv[ITEM_BRONZE] = @ + 1,
                   !.fatigue = @ + 20]
    ELSE a

\* gather: the units taken and the resource pool it leaves
gather(pool, rk, want_units) ==
    LET max_take == pool[rk] \div 20
        take == IF want_units < max_take THEN want_units ELSE max_take
    IN  [take |-> take, pool |-> [pool EXCEPT ![rk] = @ - take * 20]]

\* one pass of the loop of craft_item
craft_unit(a, item) ==
    IF item = ITEM_POT
    THEN IF a.inv[ITEM_CLAY] >= 2 /\ a.inv[ITEM_WOOD] >= 1
         THEN [a EXCEPT !.inv[ITEM_CLAY] = @ - 2, !.inv[ITEM_WOOD] = @ - 1,
                        !.inv[ITEM_POT] = @ + 1, !.fatigue = @ + 10]
         ELSE a
    ELSE IF item = ITEM_BRONZE
    THEN IF a.inv[ITEM_COPPER] >= 1 /\ a.inv[ITEM_TIN] >= 1 /\ a.inv[ITEM_WOOD] >= 2
         THEN [a EXCEPT !.inv[ITEM_COPPER] = @ - 1, !.inv[ITEM_TIN] = @ - 1,
                        !.inv[ITEM_WOOD] = @ - 2, !.inv[ITEM_BRONZE] = @ + 1,
                        !.fatigue = @ + 20]
         ELSE a
    ELSE IF item = ITEM_TOOL
    THEN IF a.inv[ITEM_BRONZE] >= 1
         THEN [a EXCEPT !.inv[ITEM_BRONZE] = @ - 1, !.inv[ITEM_TOOL] = @ + 1,
                        !.fatigue = @ + 20]
         ELSE a
    ELSE a

RECURSIVE craft_item(_, _, _)
craft_item(a, item, amount) ==
    IF amount <= 0 THEN a
    ELSE CHOOSE r \in {craft_item(a1, item, amount - 1) : a1 \in {craft_unit(a, item)}} : TRUE

\* the inner loop of trade: the item offered for want
RECURSIVE OfferLoop(_, _, _, _, _, _)
OfferLoop(val, a, want, it, offer, bestScore) ==
    IF it >= ITEM_MAX THEN offer
    ELSE IF it = want \/ a.inv[it] < 6
         THEN OfferLoop(val, a, want, it + 1, offer, bestScore)
         ELSE IF val[it] > bestScore
              THEN OfferLoop(val, a, want, it + 1, it, val[it])
              ELSE OfferLoop(val, a, want, it + 1, offer, bestScore)

\* mutant of TradeWant: the valuations of offer and want are not compared
TradeWant_AnyPrice(val, a, want) ==
    IF a.inv[want] >= 3 THEN a
    ELSE LET offer == OfferLoop(val, a, want, 0, ITEM_FISH, -1000)
         IN  IF a.inv[offer] < 6 THEN a
             ELSE [a EXCEPT !.inv[offer] = @ - 2, !.inv[want] = @ + 1,
                            !.fatigue = @ + 10]

\* one pass of the outer loop of trade
TradeWant(val, a, want) ==
    IF a.inv[want] >= 3 THEN a
    ELSE LET offer == OfferLoop(val, a, want, 0, ITEM_FISH, -1000)
         IN  IF a.inv[offer] < 6 THEN a
             ELSE IF val[offer] >= val[want]
                  THEN [a EXCEPT !.inv[offer] = @ - 2, !.inv[want] = @ + 1,
                                 !.fatigue = @ + 10]
                  ELSE a

trade(s, a) ==
    LET val == s.settlements[s.households[a.household_id + 1].settlement_id + 1].val
    IN  TradeWant(val, TradeWant(val, TradeWant(val, TradeWant(val, a,
            ITEM_GRAIN), ITEM_FISH), ITEM_TOOL), ITEM_POT)

\* mutant of eat: grain is not eaten
eat_FishOnly(a) ==
    IF a.hunger <= 70 THEN a
    ELSE LET a1 == IF a.inv[ITEM_FISH] > 0
                   THEN [a EXCEPT !.inv[ITEM_FISH] = @ - 1, !.hunger = @ - 35]
                   ELSE a
         IN  IF a1.hunger < 0 THEN [a1 EXCEPT !.hunger = 0] ELSE a1

\* mutant of eat: grain is eaten whatever the fish did to the hunger
eat_Both(a) ==
    IF a.hunger <= 70 THEN a
    ELSE LET a1 == IF a.inv[ITEM_FISH] > 0
                   THEN [a EXCEPT !.inv[ITEM_FISH] = @ - 1, !.hunger = @ - 35]
                   ELSE a
         IN  IF a1.inv[ITEM_GRAIN] > 0
             THEN [a1 EXCEPT !.inv[ITEM_GRAIN] = @ - 1, !.hunger = @ - 30]
             ELSE a1

eat(a) ==
    IF a.hunger <= 70 THEN a
    ELSE LET a1 == IF a.inv[ITEM_FISH] > 0
                   THEN [a EXCEPT !.inv[ITEM_FISH] = @ - 1, !.hunger = @ - 35]
                   ELSE a
             a2 == IF a1.hunger > 70 /\ a1.inv[ITEM_GRAIN] > 0
                   THEN [a1 EXCEPT !.inv[ITEM_GRAIN] = @ - 1, !.hunger = @ - 30]
                   ELSE a1
         IN  IF a2.hunger < 0 THEN [a2 EXCEPT !.hunger = 0] ELSE a2

\* mutant of apprenticeship: the age of the agent is not looked at
apprenticeship_AnyAge(s, a, r) ==
    LET pid == s.households[a.household_id + 1].parent_id
    IN  IF pid < 0 \/ pid >= Len(s.agents) THEN a
        ELSE IF r < 100 THEN [a EXCEPT !.vocation_id = s.agents[pid + 1].vocation_id]
             ELSE a

\* apprenticeship; r is the value of rng_f01 in thousandths
\* mutant of apprenticeship: the vocation copied is that of the agent after
\* the parent
apprenticeship_NextAgent(s, a, r) ==
    IF a.age < 10 \/ a.age > 16 THEN a
    ELSE LET pid == s.households[a.household_id + 1].parent_id
         IN  IF pid < 0 \/ pid >= Len(s.agents) THEN a
             ELSE IF r < 100
                  THEN [a EXCEPT !.vocation_id =
                                     s.agents[((pid + 1) % Len(s.agents)) + 1].vocation_id]
                  ELSE a

apprenticeship(s, a, r) ==
    IF a.age < 10 \/ a.age > 16 THEN a
    ELSE LET pid == s.households[a.household_id + 1].parent_id
         IN  IF pid < 0 \/ pid >= Len(s.agents) THEN a
             ELSE IF r < 100 THEN [a EXCEPT !.vocation_id = s.agents[pid + 1].vocation_id]
                  ELSE a

\* one inventory clause of cond_eval
InvClause(have, ck, v) ==
    /\ ck = CMP_GT => have > v
    /\ ck = CMP_LT => have < v
    /\ ck = CMP_GE => have >= v
    /\ ck = CMP_LE => have <= v

\* mutant of cond_eval: a roll equal to prob passes
cond_eval_ProbInclusive(c, s, a, roll) ==
    /\ c.has_hunger => a.hunger * 10 > c.hunger_threshold
    /\ c.has_fatigue => a.fatigue < c.fatigue_threshold
    /\ c.season_eq # SEASON_ANY => world_season_kind(s.day) = c.season_eq
    /\ \A k \in 1..Len(c.inv_item) :
          InvClause(a.inv[c.inv_item[k]], c.inv_cmp[k], c.inv_value[k])
    /\ c.has_prob => roll <= c.prob

\* mutant of cond_eval: the season of the day is not looked at
cond_eval_NoSeason(c, s, a, roll) ==
    /\ c.has_hunger => a.hunger * 10 > c.hunger_threshold
    /\ c.has_fatigue => a.fatigue < c.fatigue_threshold
    /\ \A k \in 1..Len(c.inv_item) :
          InvClause(a.inv[c.inv_item[k]], c.inv_cmp[k], c.inv_value[k])
    /\ c.has_prob => roll < c.prob

\* cond_eval; roll is the value of rng_f01 in thousandths
cond_eval(c, s, a, roll) ==
    /\ c.has_hunger => a.hunger * 10 > c.hunger_threshold
    /\ c.has_fatigue => a.fatigue < c.fatigue_threshold
    /\ c.season_eq # SEASON_ANY => world_season_kind(s.day) = c.season_eq
    /\ \A k \in 1..Len(c.inv_item) :
          InvClause(a.inv[c.inv_item[k]], c.inv_cmp[k], c.inv_value[k])
    /\ c.has_prob => roll < c.prob

\* mutant of Weight: a negative weight counts with its size
Weight_Abs(r) == IF r.weight > 0 THEN r.weight ELSE -r.weight

\* w = r.weight if r.weight > 0 else 0
Weight(r) == IF r.weight > 0 THEN r.weight ELSE 0

\* the first loop of choose_task: the eligible rules, as positions in
\* voc.rules, in order
eligible(voc, s, a, roll) ==
    SelectSeq([k \in 1..Len(voc.rules) |-> k],
              LAMBDA k : cond_eval(voc.rules[k].cond, s, a, roll)
                         /\ Weight(voc.rules[k]) > 0)

RECURSIVE TotalWeight(_, _, _)
TotalWeight(voc, elig, k) ==
    IF k > Len(elig) THEN 0
    ELSE Weight(voc.rules[elig[k]]) + TotalWeight(voc, elig, k + 1)

\* mutant of WalkEligible: the walk stops one rule late on a boundary
RECURSIVE WalkEligible_Late(_, _, _, _)
WalkEligible_Late(voc, elig, k, pick) ==
    IF k > Len(elig) THEN 0
    ELSE IF pick - Weight(voc.rules[elig[k]]) <= 0 THEN elig[k]
         ELSE WalkEligible_Late(voc, elig, k + 1, pick - Weight(voc.rules[elig[k]]))

\* the second loop of choose_task: the position in voc.rules of the rule at
\* which pick drops below zero, 0 if the loop runs out
RECURSIVE WalkEligible(_, _, _, _)
WalkEligible(voc, elig, k, pick) ==
    IF k > Len(elig) THEN 0
    ELSE IF pick - Weight(voc.rules[elig[k]]) < 0 THEN elig[k]
         ELSE WalkEligible(voc, elig, k + 1, pick - Weight(voc.rules[elig[k]]))

\* "resolve task": the first task of voc with that name, <<>> for None
ResolveTask(voc, task_name) ==
    IF \E k \in 1..Len(voc.tasks) : voc.tasks[k].name = task_name
    THEN <<voc.tasks[CHOOSE k \in 1..Len(voc.tasks) :
                        /\ voc.tasks[k].name = task_name
                        /\ \A j \in 1..(k - 1) : voc.tasks[j].name # task_name]>>
    ELSE <<>>

\* choose_task with its locals: total, pick, the selected rule (position in
\* voc.rules, 0 for none) and the task returned (<<>> for None).  roll is the
\* value of rng_f01 in thousandths and raw the value of rng_u32.
ChooseTask(vocations, s, a, roll, raw) ==
    LET v == get(vocations, a.vocation_id)
        none == [total |-> 0, pick |-> -1, rule |-> 0, task |-> <<>>]
    IN  IF v = <<>> THEN none
        ELSE LET voc == v[1]
                 elig == eligible(voc, s, a, roll)
                 total == TotalWeight(voc, elig, 1)
             IN  IF total <= 0 THEN none
                 ELSE LET pick == raw % total
                          rule == WalkEligible(voc, elig, 1, pick)
                      IN  [total |-> total, pick |-> pick, rule |-> rule,
                           task |-> IF rule = 0 THEN <<>>
                                    ELSE ResolveTask(voc, voc.rules[rule].task_name)]

choose_task(s, a, roll, raw) == ChooseTask(s.voc_table, s, a, roll, raw).task

\* the inventory slot exec_task credits for a gathered resource, -1 for none
GatherSlot(rk) ==
    CASE rk = RES_FISH -> ITEM_FISH
      [] rk = RES_GRAIN -> ITEM_GRAIN
      [] rk = RES_WOOD -> ITEM_WOOD
      [] rk = RES_CLAY -> ITEM_CLAY
      [] rk = RES_COPPER -> ITEM_COPPER
      [] rk = RES_TIN -> ITEM_TIN
      [] OTHER -> -1

\* a.fatigue -= 0.2, floored at 0
Rest(a) == [a EXCEPT !.fatigue = IF @ - 200 < 0 THEN 0 ELSE @ - 200]

\* one op of exec_task, for agent number i
exec_op(s, i, op) ==
    LET a == s.agents[i + 1]
    IN  CASE op.kind = OP_MOVE_TO ->
               [s EXCEPT !.agents[i + 1] = move_to_tag(a, op.arg_j, 12)]
          [] op.kind = OP_GATHER ->
               LET g == gather(s.resources_pool, op.arg_j, op.arg_i)
                   slot == GatherSlot(op.arg_j)
               IN  [s EXCEPT !.resources_pool = g.pool,
                             !.agents[i + 1] =
                                 IF slot < 0 THEN a
                                 ELSE [a EXCEPT !.inv[slot] = @ + g.take]]
          [] op.kind = OP_CRAFT ->
               [s EXCEPT !.agents[i + 1] = craft_item(a, op.arg_j, op.arg_i)]
          [] op.kind = OP_TRADE ->
               [s EXCEPT !.agents[i + 1] = trade(s, a)]
          [] op.kind = OP_REST ->
               [s EXCEPT !.agents[i + 1] = Rest(a)]
          [] op.kind = OP_ROAM ->
               [s EXCEPT !.agents[i + 1] = roam(a, op.arg_i)]
          [] OTHER -> s

RECURSIVE ExecOps(_, _, _, _)
ExecOps(s, i, ops, k) ==
    IF k > Len(ops) THEN s
    ELSE CHOOSE r \in {ExecOps(s1, i, ops, k + 1) : s1 \in {exec_op(s, i, ops[k])}} : TRUE

exec_task(s, i, t) == ExecOps(s, i, t.ops, 1)

\* ------------------------------------------------------------------------
\* Role switching
\* ------------------------------------------------------------------------
RECURSIVE AliveFrom(_, _)
AliveFrom(agents, k) ==
    IF k > Len(agents) THEN 0
    ELSE (IF agents[k].health <= 0 THEN 0 ELSE 1) + AliveFrom(agents, k + 1)

\* the number of agents with health > 0
AliveCount(agents) == AliveFrom(agents, 1)

RECURSIVE TotalFrom(_, _, _)
TotalFrom(agents, it, k) ==
    IF k > Len(agents) THEN 0
    ELSE (IF agents[k].health <= 0 THEN 0 ELSE agents[k].inv[it])
         + TotalFrom(agents, it, k + 1)

\* totals[it]: what the alive agents hold of item it
InvTotal(agents, it) == TotalFrom(agents, it, 1)

\* the target vocation of role_switching, -1 for none.  The per-capita
\* comparisons are written without the division: pc < 3.0 is total < 3 * alive,
\* pc < 0.6 is 10 * total < 6 * alive.
TargetVoc(s, alive) ==
    LET grain == InvTotal(s.agents, ITEM_GRAIN)
        fish == InvTotal(s.agents, ITEM_FISH)
        tool == InvTotal(s.agents, ITEM_TOOL)
        pot == InvTotal(s.agents, ITEM_POT)
        farmer_id == find(s.voc_table, "farmer")
        fisher_id == find(s.voc_table, "fisher")
        smith_id == find(s.voc_table, "smith")
        potter_id == find(s.voc_table, "potter")
        t1 == IF farmer_id >= 0 /\ grain < 3 * alive THEN farmer_id ELSE -1
        t2 == IF fisher_id >= 0 /\ fish < 2 * alive /\ (t1 < 0 \/ fish < grain)
              THEN fisher_id ELSE t1
        t3 == IF smith_id >= 0 /\ 10 * tool < 6 * alive THEN smith_id ELSE t2
        t4 == IF potter_id >= 0 /\ 10 * pot < 6 * alive THEN potter_id ELSE t3
    IN  t4

\* mutant of SwitchLoop: the loop does not stop at the limit
RECURSIVE SwitchLoop_NoLimit(_, _, _, _, _, _)
SwitchLoop_NoLimit(s, k, switched, limit, target_voc, r) ==
    IF k > Len(s.agents) THEN s
    ELSE LET a == s.agents[k]
         IN  IF a.health <= 0 \/ a.age < 17 \/ a.vocation_id = target_voc
             THEN SwitchLoop_NoLimit(s, k + 1, switched, limit, target_voc, r)
             ELSE IF s.households[a.household_id + 1].parent_id = k - 1
             THEN SwitchLoop_NoLimit(s, k + 1, switched, limit, target_voc, r)
             ELSE IF r[k] < 50
                  THEN SwitchLoop_NoLimit([s EXCEPT !.agents[k].vocation_id = target_voc],
                                          k + 1, switched + 1, limit, target_voc, r)
                  ELSE SwitchLoop_NoLimit(s, k + 1, switched, limit, target_voc, r)

\* mutant of SwitchLoop: the household parent is not skipped
RECURSIVE SwitchLoop_NoParentSkip(_, _, _, _, _, _)
SwitchLoop_NoParentSkip(s, k, switched, limit, target_voc, r) ==
    IF k > Len(s.agents) THEN s
    ELSE LET a == s.agents[k]
         IN  IF a.health <= 0 \/ a.age < 17 \/ a.vocation_id = target_voc
             THEN SwitchLoop_NoParentSkip(s, k + 1, switched, limit, target_voc, r)
             ELSE IF r[k] < 50
                  THEN IF switched + 1 >= limit
                       THEN [s EXCEPT !.agents[k].vocation_id = target_voc]
                       ELSE SwitchLoop_NoParentSkip(
                                [s EXCEPT !.agents[k].vocation_id = target_voc],
                                k + 1, switched + 1, limit, target_voc, r)
                  ELSE SwitchLoop_NoParentSkip(s, k + 1, switched, limit, target_voc, r)

\* the second loop of role_switching, from agent number k - 1 on; r[k] is
\* the value of rng_f01 for agent number k - 1, in thousandths
RECURSIVE SwitchLoop(_, _, _, _, _, _)
SwitchLoop(s, k, switched, limit, target_voc, r) ==
    IF k > Len(s.agents) THEN s
    ELSE LET a == s.agents[k]
         IN  IF a.health <= 0 \/ a.age < 17 \/ a.vocation_id = target_voc
             THEN SwitchLoop(s, k + 1, switched, limit, target_voc, r)
             ELSE IF s.households[a.household_id + 1].parent_id = k - 1
             THEN SwitchLoop(s, k + 1, switched, limit, target_voc, r)
             ELSE IF r[k] < 50
                  THEN IF switched + 1 >= limit
                       THEN [s EXCEPT !.agents[k].vocation_id = target_voc]
                       ELSE SwitchLoop([s EXCEPT !.agents[k].vocation_id = target_voc],
                                       k + 1, switched + 1, limit, target_voc, r)
                  ELSE SwitchLoop(s, k + 1, switched, limit, target_voc, r)

role_switching(s, r) ==
    IF s.switch_every_days = 0 THEN s
    ELSE IF s.day % s.switch_every_days # 0 THEN s
    ELSE LET alive == AliveCount(s.agents)
         IN  IF alive <= 0 THEN s
             ELSE LET target_voc == TargetVoc(s, alive)
                  IN  IF target_voc < 0 THEN s
                      ELSE SwitchLoop(s, 1, 0, alive \div 50 + 1, target_voc, r)

\* ------------------------------------------------------------------------
\* sim_step
\* ------------------------------------------------------------------------
\* int() of p * scale / unit, without leaving 32 bits
ScaleUnits(p, scale, unit) ==
    LET q(n) == (n \div unit) * scale + ((n % unit) * scale) \div unit
    IN  IF p >= 0 THEN q(p) ELSE -q(-p)

\* scale = max(1000, n * 80)
PoolScale(n) == IF n * 80 > 1000 THEN n * 80 ELSE 1000

\* The pool is renewed by int() of a product of doubles.  For these pairs of
\* a default rate (in 1/10000) and a multiplier (in percent) the double
\* product rate * mul * 255.0 * 1000 lies just below the integer the decimal
\* product is, and int() gives one less; likewise rate * 255.0 * 30.0 * 1000
\* for the rates of InitShort.  (Scale 1000: up to 12 agents.)
RenewShort ==
    {<<600, 100>>, <<600, 70>>, <<300, 100>>, <<300, 70>>, <<1000, 70>>, <<1000, 30>>}
InitShort == {600, 300}

\* int(renew_per_day[rk] * mul * 255.0 * scale), rate in 1/10000, mul in percent
RenewUnits(rate, mul, scale) ==
    ScaleUnits(rate * mul * 255, scale, 1000000)
    - (IF <<rate, mul>> \in RenewShort THEN 1 ELSE 0)

\* int(renew_per_day[rk] * 255.0 * 30.0 * scale)
InitUnits(rate, scale) ==
    ScaleUnits(rate * 255 * 30, scale, 10000) - (IF rate \in InitShort THEN 1 ELSE 0)

\* the first part of sim_step: the day advances and the pool is renewed
Regen(s) ==
    LET day == s.day + 1
        season == world_season_kind(day)
        scale == PoolScale(Len(s.agents))
        mul(rk) == IF rk = RES_FISH THEN fishMul(season)
                   ELSE IF rk = RES_GRAIN THEN grainMul(season) ELSE 100
    IN  [s EXCEPT !.day = day,
                  !.resources_pool =
                      [rk \in Resources |->
                          s.resources_pool[rk]
                          + RenewUnits(s.renew_per_day[rk], mul(rk), scale)],
                  !.picked = [k \in DOMAIN @ |-> 0]]

\* mutant of NeedsDrift: the two rates are swapped
NeedsDrift_Swapped(a) ==
    [a EXCEPT !.hunger = IF @ + 8 > 100 THEN 100 ELSE @ + 8,
              !.fatigue = IF @ - 180 < 0 THEN 0 ELSE @ - 180]

\* mutant of NeedsDrift: hunger is not capped at 1.0
NeedsDrift_NoCap(a) ==
    [a EXCEPT !.hunger = @ + 18,
              !.fatigue = IF @ - 80 < 0 THEN 0 ELSE @ - 80]

\* "needs drift": hunger += 0.18 capped at 1.0, fatigue -= 0.08 floored at 0
NeedsDrift(a) ==
    [a EXCEPT !.hunger = IF @ + 18 > 100 THEN 100 ELSE @ + 18,
              !.fatigue = IF @ - 80 < 0 THEN 0 ELSE @ - 80]

\* mutant of AgentAct: exhaustion is looked at before starvation
AgentAct_ExhaustedFirst(s, i, roll, raw) ==
    LET a == s.agents[i + 1]
    IN  IF a.fatigue >= 900
        THEN [s EXCEPT !.agents[i + 1].fatigue = IF @ - 200 < 0 THEN 0 ELSE @ - 200]
        ELSE IF a.hunger > 95
        THEN [s EXCEPT !.agents[i + 1].health = IF @ - 1 < 0 THEN 0 ELSE @ - 1]
        ELSE s

\* the rest of an agent's day once eat and apprenticeship are done:
\* starvation damage, rest when exhausted, or a task
AgentAct(s, i, roll, raw) ==
    LET a == s.agents[i + 1]
    IN  IF a.hunger > 95
        THEN [s EXCEPT !.agents[i + 1].health = IF @ - 1 < 0 THEN 0 ELSE @ - 1]
        ELSE IF a.fatigue >= 900
        THEN [s EXCEPT !.agents[i + 1].fatigue = IF @ - 200 < 0 THEN 0 ELSE @ - 200]
        ELSE LET t == choose_task(s, a, roll, raw)
             IN  IF t = <<>>
                 THEN LET a1 == [a EXCEPT !.fatigue = @ + 3]
                      IN  [s EXCEPT !.agents[i + 1] =
                                        IF i % 9 = 0 THEN trade(s, a1) ELSE a1]
                 ELSE [exec_task(s, i, t[1]) EXCEPT
                          !.picked[i + 1] = ChooseTask(s.voc_table, s, a, roll, raw).rule]

\* mutant of AgentDay: the dead are not passed over
AgentDay_NoDeadSkip(s, i, d) ==
    LET a0 == s.agents[i + 1]
        a1 == IF s.day % 360 = 0 THEN [a0 EXCEPT !.age = @ + 1] ELSE a0
    IN  CHOOSE r \in
           {AgentAct([s EXCEPT !.agents[i + 1] = a3], i, d.roll, d.raw) :
               a3 \in {apprenticeship(s, eat(NeedsDrift(a1)), d.appr)}} : TRUE

\* the body of the agent loop of sim_step for agent number i; d holds the
\* values the three random draws of the day take for this agent
AgentDay(s, i, d) ==
    LET a0 == s.agents[i + 1]
    IN  IF a0.health <= 0 THEN s
        ELSE LET a1 == IF s.day % 360 = 0 THEN [a0 EXCEPT !.age = @ + 1] ELSE a0
             IN  CHOOSE r \in
                    {AgentAct([s EXCEPT !.agents[i + 1] = a3], i, d.roll, d.raw) :
                        a3 \in {apprenticeship(s, eat(NeedsDrift(a1)), d.appr)}} : TRUE

\* ------------------------------------------------------------------------
\* sim_init_from_cfg.  The values it takes from brz_hash_u32 of the seed (the
\* spawn cells, the ages, the vocation rolls rr, the settlement sites and
\* valuation rolls) are the fields of the draw d.  The field picked is not
\* one of the program's: picked[k] records the rule (its position in the
\* rules of the vocation) whose task agent number k - 1 ran in the latest
\* sim_step, 0 when it ran none.
\* ------------------------------------------------------------------------
\* the vocation an agent starts in, for its roll rr in 0..99
\* mutant of InitVocation: an agent whose roll names no vocation of the
\* table gets none
InitVocation_NoDefault(vocations, rr) ==
    LET farmer_id == find(vocations, "farmer")
        fisher_id == find(vocations, "fisher")
        potter_id == find(vocations, "potter")
        smith_id == find(vocations, "smith")
        trader_id == find(vocations, "trader")
    IN  IF rr < 45 /\ farmer_id >= 0 THEN farmer_id
        ELSE IF rr < 70 /\ fisher_id >= 0 THEN fisher_id
        ELSE IF rr < 85 /\ potter_id >= 0 THEN potter_id
        ELSE IF rr < 95 /\ smith_id >= 0 THEN smith_id
        ELSE IF trader_id >= 0 THEN trader_id ELSE -1

InitVocation(vocations, rr) ==
    LET default_voc == IF vocations # <<>> THEN 0 ELSE -1
        farmer_id == find(vocations, "farmer")
        fisher_id == find(vocations, "fisher")
        potter_id == find(vocations, "potter")
        smith_id == find(vocations, "smith")
        trader_id == find(vocations, "trader")
    IN  IF rr < 45 /\ farmer_id >= 0 THEN farmer_id
        ELSE IF rr < 70 /\ fisher_id >= 0 THEN fisher_id
        ELSE IF rr < 85 /\ potter_id >= 0 THEN potter_id
        ELSE IF rr < 95 /\ smith_id >= 0 THEN smith_id
        ELSE IF trader_id >= 0 THEN trader_id ELSE default_voc

\* Settlement(x, y) with the valuations set from r in 0..99
Settlement(site, r) ==
    [x |-> site[1], y |-> site[2],
     val |-> [it \in Items |->
                CASE it = ITEM_FISH -> 1000 + 5 * r
                  [] it = ITEM_GRAIN -> 1000 + 5 * (100 - r)
                  [] it = ITEM_POT -> 1000 + 4 * r
                  [] it = ITEM_TOOL -> 1200 + 6 * r
                  [] it = ITEM_BRONZE -> 1300 + 7 * r
                  [] OTHER -> 1000]]

\* mutant of HouseholdParent: the last of the oldest
HouseholdParent_Last(agents, h) ==
    IF \E k \in 1..Len(agents) : agents[k].household_id = h
    THEN (CHOOSE k \in 1..Len(agents) :
             /\ agents[k].household_id = h
             /\ \A j \in 1..Len(agents) :
                   agents[j].household_id = h =>
                       \/ agents[j].age < agents[k].age
                       \/ (agents[j].age = agents[k].age /\ j <= k)) - 1
    ELSE -1

\* "determine household parent as oldest member": the first of the oldest
HouseholdParent(agents, h) ==
    IF \E k \in 1..Len(agents) : agents[k].household_id = h
    THEN (CHOOSE k \in 1..Len(agents) :
             /\ agents[k].household_id = h
             /\ \A j \in 1..Len(agents) :
                   agents[j].household_id = h =>
                       \/ agents[j].age < agents[k].age
                       \/ (agents[j].age = agents[k].age /\ j >= k)) - 1
    ELSE -1

sim_init_from_cfg(c, d) ==
    LET settlement_count == IF c.settlement_count > 1 THEN c.settlement_count ELSE 1
        agent_count == IF c.agent_count > 1 THEN c.agent_count ELSE 1
        household_count == (agent_count + 4) \div 5
        agents == [k \in 1..agent_count |->
                      [x |-> d.spawn[k][1], y |-> d.spawn[k][2],
                       vocation_id |-> InitVocation(c.voc_table, d.rr[k]),
                       age |-> d.age[k],
                       household_id |-> (k - 1) % household_count,
                       inv |-> Agent.inv,
                       hunger |-> 10, fatigue |-> 100, health |-> 100]]
        scale == PoolScale(c.agent_count)
    IN  [settlements |-> [k \in 1..settlement_count |-> Settlement(d.site[k], d.val[k])],
         resources_pool |-> [rk \in Resources |->
                               InitUnits(c.renew[rk], scale)],
         households |-> [h \in 1..household_count |->
                           [id |-> h - 1,
                            settlement_id |-> (h - 1) % settlement_count,
                            parent_id |-> HouseholdParent(agents, h - 1)]],
         agents |-> agents,
         voc_table |-> c.voc_table,
         renew_per_day |-> c.renew,
         day |-> 0,
         switch_every_days |-> 30,
         picked |-> [k \in 1..agent_count |-> 0]]

\* ------------------------------------------------------------------------
\* Reports and snapshots: both hold the day, the season, the number of
\* alive agents, their summed inventory and the head count per vocation
\* ------------------------------------------------------------------------
RECURSIVE VocCountFrom(_, _, _)
VocCountFrom(agents, v, k) ==
    IF k > Len(agents) THEN 0
    ELSE (IF agents[k].health > 0 /\ agents[k].vocation_id = v THEN 1 ELSE 0)
         + VocCountFrom(agents, v, k + 1)

sim_report(s) ==
    [day |-> s.day,
     season |-> world_season_kind(s.day),
     alive |-> AliveCount(s.agents),
     inv |-> [it \in Items |-> InvTotal(s.agents, it)],
     voc_counts |-> [v \in 1..Len(s.voc_table) |-> VocCountFrom(s.agents, v - 1, 1)]]

sim_write_snapshot_json(s) == sim_report(s)

\* ------------------------------------------------------------------------
\* The configurations and the random draws considered
\* ------------------------------------------------------------------------
IdleDays == 106         \* days of the run of CfgIdle
VillageDays == 30       \* days of the run of CfgVillage
ShortDays == 3          \* days of the other runs
SeasonDays == 361       \* days of the run of CfgSeasons: a year and a day
FamilyDays == 120       \* days of the run of CfgFamily: four role switching passes
MaxRaw == 3             \* rng_u32 takes the values 0..MaxRaw

AgeChoices == {12, 17, 30}          \* a.age, of 8..42
RrChoices == {10, 50, 90}           \* rr, of 0..99
ValChoices == {0, 50}               \* the valuation roll r, of 0..99
SpawnChoices == {<<100, 100>>}      \* pick_spawn
SiteChoices == {<<1000, 1000>>}     \* the settlement cell
RollChoices == {100, 600}           \* rng_f01 of choose_task, in thousandths
ApprChoices == {50, 500}            \* rng_f01 of apprenticeship, in thousandths
SwitchChoices == {10, 500}          \* rng_f01 of role_switching, in thousandths

\* ParsedConfig(): the defaults; renew holds the 14 *_renew fields
ParsedConfig ==
    [seed |-> 1337, days |-> 120, agent_count |-> 220, settlement_count |-> 6,
     cache_max |-> 2048, renew |-> DefaultRenew, voc_table |-> <<>>,
     snapshot_every_days |-> 30, map_every_days |-> 0]

WhenFatigueBelow(v) == [Condition EXCEPT !.has_fatigue = TRUE, !.fatigue_threshold = v]
WhenHungerAbove(v) == [Condition EXCEPT !.has_hunger = TRUE, !.hunger_threshold = v]
WhenProb(p) == [Condition EXCEPT !.has_prob = TRUE, !.prob = p]
WhenInv(item, ck, v) ==
    [Condition EXCEPT !.inv_item = <<item>>, !.inv_cmp = <<ck>>, !.inv_value = <<v>>]

\* vocations { } : no vocation at all
CfgNoVocations == [ParsedConfig EXCEPT !.days = ShortDays, !.agent_count = 1]

\* ten days of one agent of a vocation without tasks and rules, a snapshot
\* every fifth day
CfgTenDays ==
    [ParsedConfig EXCEPT
        !.days = 10, !.agent_count = 1, !.settlement_count = 1,
        !.snapshot_every_days = 5,
        !.voc_table = <<VocationDef("idler", <<>>, <<>>)>>]

\* one agent of a vocation without tasks and rules
CfgIdle ==
    [ParsedConfig EXCEPT
        !.days = IdleDays, !.agent_count = 1, !.settlement_count = 1,
        !.voc_table = <<VocationDef("idler", <<>>, <<>>)>>]

\* farmers, fishers and smiths, one rule each
CfgVillage ==
    [ParsedConfig EXCEPT
        !.days = VillageDays, !.agent_count = 2, !.settlement_count = 1,
        !.snapshot_every_days = 7,
        !.voc_table =
            <<VocationDef("farmer",
                  <<TaskDef("farm", <<OpDef(OP_MOVE_TO, 0, TAG_FIELD),
                                      OpDef(OP_GATHER, 1, RES_GRAIN),
                                      OpDef(OP_REST, 0, 0)>>)>>,
                  <<RuleDef("r", WhenFatigueBelow(950), "farm", 1)>>),
              VocationDef("fisher",
                  <<TaskDef("fish", <<OpDef(OP_MOVE_TO, 0, TAG_COAST),
                                      OpDef(OP_GATHER, 1, RES_FISH)>>)>>,
                  <<RuleDef("r", WhenFatigueBelow(950), "fish", 1)>>),
              VocationDef("smith",
                  <<TaskDef("smelt", <<OpDef(OP_GATHER, 1, RES_FIRE),
                                       OpDef(OP_REST, 0, 0)>>)>>,
                  <<RuleDef("r", WhenHungerAbove(0), "smelt", 2)>>)>>]

\* potters and traders that choose among several rules
CfgWorkshop ==
    [ParsedConfig EXCEPT
        !.days = ShortDays, !.agent_count = 2, !.settlement_count = 0,
        !.snapshot_every_days = 0,
        !.voc_table =
            <<VocationDef("potter",
                  <<TaskDef("dig", <<OpDef(OP_GATHER, 4, RES_CLAY),
                                     OpDef(OP_GATHER, 2, RES_WOOD)>>),
                    TaskDef("fire", <<OpDef(OP_CRAFT, 2, ITEM_POT),
                                      OpDef(OP_REST, 0, 0)>>)>>,
                  <<RuleDef("r1", WhenInv(ITEM_CLAY, CMP_LT, 2), "dig", 2),
                    RuleDef("r2", WhenInv(ITEM_CLAY, CMP_GE, 2), "fire", 3),
                    RuleDef("r3", WhenProb(500), "dig", 1),
                    RuleDef("r4", WhenProb(500), "fire", 0)>>),
              VocationDef("trader",
                  <<TaskDef("haul", <<OpDef(OP_MOVE_TO, 0, TAG_COAST),
                                      OpDef(OP_GATHER, 8, RES_FISH),
                                      OpDef(OP_TRADE, 0, 0)>>)>>,
                  <<RuleDef("r1", WhenFatigueBelow(900), "haul", 1),
                    RuleDef("r2", [Condition EXCEPT !.season_eq = SEASON_WINTER],
                            "haul", -2)>>)>>]

\* a forager whose ops carry large and negative counts
CfgForager ==
    [ParsedConfig EXCEPT
        !.days = ShortDays, !.agent_count = 1, !.settlement_count = 1,
        !.snapshot_every_days = -1,
        !.voc_table =
            <<VocationDef("forager",
                  <<TaskDef("wander", <<OpDef(OP_ROAM, 1200, 0)>>),
                    TaskDef("poach", <<OpDef(OP_GATHER, -5, RES_FISH)>>),
                    TaskDef("back", <<OpDef(OP_ROAM, -500, 0)>>),
                    TaskDef("forge", <<OpDef(OP_GATHER, 3, RES_COPPER),
                                       OpDef(OP_GATHER, 3, RES_TIN),
                                       OpDef(OP_GATHER, 6, RES_WOOD),
                                       OpDef(OP_CRAFT, 3, ITEM_BRONZE),
                                       OpDef(OP_CRAFT, 1, ITEM_TOOL)>>)>>,
                  <<RuleDef("r1", WhenFatigueBelow(5000), "wander", 1),
                    RuleDef("r2", WhenFatigueBelow(5000), "poach", 1),
                    RuleDef("r3", WhenFatigueBelow(5000), "back", 1),
                    RuleDef("r4", WhenFatigueBelow(5000), "forge", 1)>>)>>]

\* one fisher with a rule for every season beside a rule for all seasons
CfgSeasons ==
    [ParsedConfig EXCEPT
        !.days = SeasonDays, !.agent_count = 1, !.settlement_count = 1,
        !.snapshot_every_days = 0,
        !.voc_table =
            <<VocationDef("fisher",
                  <<TaskDef("fish", <<OpDef(OP_GATHER, 1, RES_FISH)>>),
                    TaskDef("net", <<OpDef(OP_GATHER, 1, RES_FISH),
                                     OpDef(OP_REST, 0, 0)>>),
                    TaskDef("dive", <<OpDef(OP_MOVE_TO, 0, TAG_COAST),
                                      OpDef(OP_GATHER, 1, RES_FISH),
                                      OpDef(OP_REST, 0, 0)>>)>>,
                  <<RuleDef("any", WhenFatigueBelow(5000), "fish", 1),
                    RuleDef("sp", [Condition EXCEPT !.season_eq = SEASON_SPRING], "net", 1),
                    RuleDef("su", [Condition EXCEPT !.season_eq = SEASON_SUMMER], "dive", 1),
                    RuleDef("au", [Condition EXCEPT !.season_eq = SEASON_AUTUMN], "net", 1),
                    RuleDef("wi", [Condition EXCEPT !.season_eq = SEASON_WINTER], "dive", 1)>>)>>]

\* one household of two: idlers and potters have no rule and starve, the
\* fishers feed themselves; every role switching pass calls for potters
CfgFamily ==
    [ParsedConfig EXCEPT
        !.days = FamilyDays, !.agent_count = 2, !.settlement_count = 1,
        !.snapshot_every_days = 0,
        !.voc_table =
            <<VocationDef("idler", <<>>, <<>>),
              VocationDef("fisher",
                  <<TaskDef("fish", <<OpDef(OP_GATHER, 2, RES_FISH),
                                      OpDef(OP_REST, 0, 0)>>)>>,
                  <<RuleDef("r", WhenFatigueBelow(950), "fish", 1)>>),
              VocationDef("potter", <<>>, <<>>)>>]

Configs ==
    {CfgNoVocations, CfgTenDays, CfgIdle, CfgVillage, CfgWorkshop, CfgForager,
     CfgSeasons, CfgFamily}

\* the draws sim_init_from_cfg can make for configuration c
InitDraws(c) ==
    LET n == IF c.agent_count > 1 THEN c.agent_count ELSE 1
        m == IF c.settlement_count > 1 THEN c.settlement_count ELSE 1
    IN  [age : [1..n -> AgeChoices], rr : [1..n -> RrChoices],
         spawn : [1..n -> SpawnChoices],
         site : [1..m -> SiteChoices], val : [1..m -> ValChoices]]

\* the draws of one agent's day; a draw no rule of the table reads is fixed
AgentDraws(s, i) ==
    LET age == s.agents[i + 1].age
        rolls == IF \E v \in 1..Len(s.voc_table) : \E k \in 1..Len(s.voc_table[v].rules) :
                       s.voc_table[v].rules[k].cond.has_prob
                 THEN RollChoices ELSE {600}
        raws == IF \E v \in 1..Len(s.voc_table) : Len(s.voc_table[v].rules) > 1
                THEN 0..MaxRaw ELSE {0}
        apprs == IF 9 <= age /\ age <= 16 THEN ApprChoices ELSE {500}
    IN  [appr : apprs, roll : rolls, raw : raws]

\* the draws of role_switching, one per agent; fixed on days without a pass
SwitchDraws(s) ==
    IF s.day % 30 = 0 THEN [1..Len(s.agents) -> SwitchChoices]
    ELSE {[k \in 1..Len(s.agents) |-> 500]}

\* mutant of AgentLoop: the agents act in descending order
RECURSIVE AgentLoop_Descending(_, _)
AgentLoop_Descending(S, i) ==
    IF \A s \in S : i >= Len(s.agents) THEN S
    ELSE AgentLoop_Descending(
             UNION {{AgentDay(s, Len(s.agents) - 1 - i, d) :
                        d \in AgentDraws(s, Len(s.agents) - 1 - i)} : s \in S},
             i + 1)

\* the agent loop of sim_step from agent number i on, over a set S of
\* simulator values: every value the loop can end in
RECURSIVE AgentLoop(_, _)
AgentLoop(S, i) ==
    IF \A s \in S : i >= Len(s.agents) THEN S
    ELSE AgentLoop(UNION {{AgentDay(s, i, d) : d \in AgentDraws(s, i)} : s \in S}, i + 1)

\* ------------------------------------------------------------------------
\* main
\* ------------------------------------------------------------------------
InitMain ==
    /\ pc = "start"
    /\ cfg \in Configs
    /\ sim = <<>>
    /\ reports = <<>>
    /\ snapshots = <<>>
    /\ exit_code = -1
    /\ preSwitch = <<>>

\* mutant of HasVocations: the check of main is dropped
HasVocations_Always(c) == TRUE

\* "if not cfg.voc_table.vocations" of main, negated
HasVocations(c) == c.voc_table # <<>>

\* the status report falls due after the sim_step of this day
ReportDue(day) == day % 10 = 0

\* mutant of SnapshotDue: the snapshot comes one day late
SnapshotDue_Late(c, day) ==
    c.snapshot_every_days > 0 /\ day % c.snapshot_every_days = 1 % c.snapshot_every_days

\* the snapshot falls due after the sim_step of this day
SnapshotDue(c, day) ==
    c.snapshot_every_days > 0 /\ day % c.snapshot_every_days = 0

\* main returns 1 when the configuration defines no vocation
MainNoVocations ==
    /\ pc = "start"
    /\ ~HasVocations(cfg)
    /\ pc' = "exit"
    /\ exit_code' = 1
    /\ UNCHANGED <<cfg, sim, reports, snapshots, preSwitch>>
    /\ UNCHANGED <<cacheVars, chooseVars, parseVars>>

\* sim = sim_init_from_cfg(cfg)
MainInit ==
    /\ pc = "start"
    /\ HasVocations(cfg)
    /\ \E d \in InitDraws(cfg) :
          /\ sim' = sim_init_from_cfg(cfg, d)
          /\ preSwitch' = [k \in 1..Len(d.age) |-> InitVocation(cfg.voc_table, d.rr[k])]
    /\ pc' = "loop"
    /\ UNCHANGED <<cfg, reports, snapshots, exit_code>>
    /\ UNCHANGED <<cacheVars, chooseVars, parseVars>>

\* one pass of the day loop of main: sim_step, then the report and the
\* snapshot of the day
MainDay ==
    /\ pc = "loop"
    /\ sim.day < cfg.days
    /\ \E m \in AgentLoop({Regen(sim)}, 0) :
          \E r \in SwitchDraws(m) :
             \E s2 \in {role_switching(m, r)} :
                /\ sim' = s2
                /\ preSwitch' = [k \in 1..Len(m.agents) |-> m.agents[k].vocation_id]
                /\ reports' = IF ReportDue(s2.day)
                              THEN Append(reports, sim_report(s2)) ELSE reports
                /\ snapshots' = IF SnapshotDue(cfg, s2.day)
                                THEN Append(snapshots, sim_write_snapshot_json(s2))
                                ELSE snapshots
    /\ UNCHANGED <<pc, cfg, exit_code>>
    /\ UNCHANGED <<cacheVars, chooseVars, parseVars>>

\* the day loop is over: the final report, and main returns 0
MainFinish ==
    /\ pc = "loop"
    /\ sim.day >= cfg.days
    /\ reports' = Append(reports, sim_report(sim))
    /\ pc' = "exit"
    /\ exit_code' = 0
    /\ UNCHANGED <<cfg, sim, snapshots, preSwitch>>
    /\ UNCHANGED <<cacheVars, chooseVars, parseVars>>


Init == InitMain /\ CacheOff /\ ChooseOff /\ ParseOff

Next == MainNoVocations \/ MainInit \/ MainDay \/ MainFinish

Spec == Init /\ [][Next]_vars

\* ------------------------------------------------------------------------
\* choose_task on its own (SpecChoose): one call on a drawn vocation, agent,
\* day and pair of random values
\* ------------------------------------------------------------------------
MaxRules == 3           \* a drawn vocation has up to MaxRules rules

SeqsUpTo(S, n) == UNION {[1..m -> S] : m \in 0..n}

ChooseTasks == <<TaskDef("t1", <<OpDef(OP_REST, 0, 0)>>),
                 TaskDef("t2", <<OpDef(OP_ROAM, 1, 0)>>)>>

\* the rules a drawn vocation is made of: conditions on hunger, chance,
\* fatigue, inventory and season; weights positive, zero and negative
ChooseRules ==
    {RuleDef("k1", WhenHungerAbove(500), "t1", 1),
     RuleDef("k2", WhenHungerAbove(500), "t2", 2),
     RuleDef("k3", WhenProb(500), "t2", 1),
     RuleDef("k4", WhenProb(500), "t1", 2),
     RuleDef("k5", WhenFatigueBelow(500), "t1", 0),
     RuleDef("k6", WhenInv(ITEM_FISH, CMP_GE, 1), "t2", -2),
     RuleDef("k7", [Condition EXCEPT !.season_eq = SEASON_WINTER], "t1", 2)}

HungerChoices == {30, 80}           \* a.hunger, in hundredths
DayChoices == {300}                 \* sim.day: a day of winter

ChooseAgent(vid, hunger) ==
    [Agent EXCEPT !.vocation_id = vid, !.hunger = hunger, !.fatigue = 100,
                  !.inv[ITEM_FISH] = 1]

ChooseInput(vocations, a, day, roll, raw) ==
    [vocations |-> vocations, a |-> a, day |-> day, roll |-> roll, raw |-> raw]

\* the agent is of the drawn vocation; or the table is empty and the agent
\* has the vocation sim_init_from_cfg gives then (default_voc = -1)
InitChoose ==
    /\ \E rules \in SeqsUpTo(ChooseRules, MaxRules), h \in HungerChoices,
          day \in DayChoices, roll \in RollChoices, raw \in 0..MaxRaw :
          \/ ct_in = ChooseInput(<<VocationDef("v", ChooseTasks, rules)>>,
                                 ChooseAgent(0, h), day, roll, raw)
          \/ ct_in = ChooseInput(<<>>, ChooseAgent(-1, h), day, roll, raw)
    /\ ct_out = <<>>

\* the call of choose_task
ChooseCall ==
    /\ pstate = "off"
    /\ ct_in # <<>>
    /\ ct_out = <<>>
    /\ ct_out' = ChooseTask(ct_in.vocations, [day |-> ct_in.day], ct_in.a,
                            ct_in.roll, ct_in.raw)
    /\ UNCHANGED ct_in
    /\ UNCHANGED <<cacheVars, simVars, parseVars>>

NextChoose == ChooseCall

ChooseStart == InitChoose /\ CacheOff /\ SimOff /\ ParseOff

SpecChoose == ChooseStart /\ [][NextChoose]_vars

\* ------------------------------------------------------------------------
\* The parser of the vocations block (SpecParse).  The lexer's output is a
\* sequence of tokens; pos is the number of tokens consumed.  A ValueError
\* of any kind ends the parse (err).
\* ------------------------------------------------------------------------
TK_EOF == 0
TK_WORD == 1
TK_LBRACE == 2
TK_RBRACE == 3

Tok(kind, text) == [kind |-> kind, text |-> text]
W(text) == Tok(TK_WORD, text)
LB == Tok(TK_LBRACE, "{")
RB == Tok(TK_RBRACE, "}")

\* Lexer.next_tok: the token and the new position; at the end TK_EOF, and
\* the position stays
next_tok(ts, p) ==
    IF p < Len(ts) THEN [tok |-> ts[p + 1], pos |-> p + 1]
    ELSE [tok |-> Tok(TK_EOF, ""), pos |-> p]

\* the token read by the call of next_tok at position p
Peek(ts, p) == next_tok(ts, p).tok
IsWord(t) == t.kind = TK_WORD

RESOURCE_MAP ==
    ("fish" :> RES_FISH) @@ ("grain" :> RES_GRAIN) @@ ("wood" :> RES_WOOD)
    @@ ("clay" :> RES_CLAY) @@ ("copper" :> RES_COPPER) @@ ("tin" :> RES_TIN)
    @@ ("fire" :> RES_FIRE) @@ ("plant_fiber" :> RES_PLANT_FIBER)
    @@ ("cattle" :> RES_CATTLE) @@ ("sheep" :> RES_SHEEP) @@ ("pig" :> RES_PIG)
    @@ ("charcoal" :> RES_CHARCOAL) @@ ("religion" :> RES_RELIGION)
    @@ ("tribalism" :> RES_TRIBALISM)

ITEM_MAP ==
    ("fish" :> ITEM_FISH) @@ ("grain" :> ITEM_GRAIN) @@ ("wood" :> ITEM_WOOD)
    @@ ("clay" :> ITEM_CLAY) @@ ("copper" :> ITEM_COPPER) @@ ("tin" :> ITEM_TIN)
    @@ ("bronze" :> ITEM_BRONZE) @@ ("tool" :> ITEM_TOOL) @@ ("pot" :> ITEM_POT)

TAG_MAP ==
    ("coast" :> TAG_COAST) @@ ("beach" :> TAG_BEACH) @@ ("forest" :> TAG_FOREST)
    @@ ("marsh" :> TAG_MARSH) @@ ("hill" :> TAG_HILL) @@ ("river" :> TAG_RIVER)
    @@ ("field" :> TAG_FIELD) @@ ("settle" :> TAG_SETTLE)
    @@ ("settlement" :> TAG_SETTLE)

\* season_parse, on lower-case words
season_parse(s) ==
    CASE s = "spring" -> SEASON_SPRING
      [] s = "summer" -> SEASON_SUMMER
      [] s = "autumn" \/ s = "fall" -> SEASON_AUTUMN
      [] s = "winter" -> SEASON_WINTER
      [] OTHER -> SEASON_ANY

parse_cmp(s) ==
    CASE s = ">" -> CMP_GT
      [] s = "<" -> CMP_LT
      [] s = ">=" -> CMP_GE
      [] s = "<=" -> CMP_LE
      [] OTHER -> CMP_ANY

\* int(s, 10) on the number words of the token streams considered; every
\* other word of these streams raises ValueError
IntText ==
    ("-5" :> -5) @@ ("0" :> 0) @@ ("1" :> 1) @@ ("2" :> 2)
IsInt(s) == s \in DOMAIN IntText
to_i32(s) == IntText[s]

\* float(s) in thousandths, on the number words of the token streams
\* considered
FloatText ==
    ("-5" :> -5000) @@ ("0" :> 0) @@ ("1" :> 1000) @@ ("2" :> 2000)
    @@ ("0.5" :> 500) @@ ("0.9" :> 900) @@ ("1.5" :> 1500)
IsFloat(s) == s \in DOMAIN FloatText
to_f32(s) == FloatText[s]

\* v clamped to 0.0 .. 1.0
ClampProb(v) == IF v < 0 THEN 0 ELSE IF v > 1000 THEN 1000 ELSE v

Fail == [err |-> TRUE]

\* mutant of TooManyInv: a fifth inv clause is accepted
TooManyInv_Five(c) == Len(c.inv_item) >= 5

\* if len(c.inv_item) >= 4: raise ValueError
TooManyInv(c) == Len(c.inv_item) >= 4

\* one clause of parse_condition, read at position p
Clause(ts, p, c) ==
    LET a == Peek(ts, p)
        w1 == Peek(ts, p + 1)
        w2 == Peek(ts, p + 2)
        w3 == Peek(ts, p + 3)
    IN  CASE a.text = "hunger" ->
               IF IsWord(w1) /\ IsWord(w2) /\ IsFloat(w2.text) /\ w1.text = ">"
               THEN [err |-> FALSE, pos |-> p + 3,
                     cond |-> [c EXCEPT !.has_hunger = TRUE,
                                        !.hunger_threshold = to_f32(w2.text)]]
               ELSE Fail
          [] a.text = "fatigue" ->
               IF IsWord(w1) /\ IsWord(w2) /\ IsFloat(w2.text) /\ w1.text = "<"
               THEN [err |-> FALSE, pos |-> p + 3,
                     cond |-> [c EXCEPT !.has_fatigue = TRUE,
                                        !.fatigue_threshold = to_f32(w2.text)]]
               ELSE Fail
          [] a.text = "season" ->
               IF IsWord(w1) /\ IsWord(w2) /\ w1.text = "=="
               THEN [err |-> FALSE, pos |-> p + 3,
                     cond |-> [c EXCEPT !.season_eq = season_parse(w2.text)]]
               ELSE Fail
          [] a.text = "inv" ->
               IF /\ IsWord(w1) /\ IsWord(w2) /\ IsWord(w3) /\ IsInt(w3.text)
                  /\ w1.text \in DOMAIN ITEM_MAP
                  /\ parse_cmp(w2.text) # CMP_ANY
                  /\ ~TooManyInv(c)
               THEN [err |-> FALSE, pos |-> p + 4,
                     cond |-> [c EXCEPT
                                 !.inv_item = Append(@, ITEM_MAP[w1.text]),
                                 !.inv_cmp = Append(@, parse_cmp(w2.text)),
                                 !.inv_value = Append(@, to_i32(w3.text))]]
               ELSE Fail
          [] a.text = "prob" ->
               IF IsWord(w1) /\ IsFloat(w1.text)
               THEN [err |-> FALSE, pos |-> p + 2,
                     cond |-> [c EXCEPT !.has_prob = TRUE,
                                        !.prob = ClampProb(to_f32(w1.text))]]
               ELSE Fail
          [] OTHER -> Fail

\* the loop of parse_condition, from position p with the condition c built
\* so far; it consumes the "do"
RECURSIVE ParseClauses(_, _, _)

\* after the clause r: "and" and the next clause, or "do"
AfterClause(ts, r) ==
    IF r.err THEN Fail
    ELSE LET maybe_and == Peek(ts, r.pos)
         IN  IF IsWord(maybe_and) /\ maybe_and.text = "and"
             THEN ParseClauses(ts, r.pos + 1, r.cond)
             ELSE IF IsWord(maybe_and) /\ maybe_and.text = "do"
                  THEN [err |-> FALSE, pos |-> r.pos + 1, cond |-> r.cond]
                  ELSE Fail

ParseClauses(ts, p, c) ==
    IF ~IsWord(Peek(ts, p)) THEN Fail
    ELSE AfterClause(ts, Clause(ts, p, c))

parse_condition(ts, p) == ParseClauses(ts, p, Condition)

\* the loop of parse_task, from position p with the ops read so far
RECURSIVE ParseOps(_, _, _)
ParseOps(ts, p, ops) ==
    LET op == Peek(ts, p)
        w1 == Peek(ts, p + 1)
        w2 == Peek(ts, p + 2)
    IN  IF op.kind = TK_RBRACE THEN [err |-> FALSE, pos |-> p + 1, ops |-> ops]
        ELSE IF ~IsWord(op) THEN Fail
        ELSE CASE op.text = "move_to" ->
                    IF IsWord(w1) /\ w1.text \in DOMAIN TAG_MAP
                    THEN ParseOps(ts, p + 2,
                                  Append(ops, OpDef(OP_MOVE_TO, 0, TAG_MAP[w1.text])))
                    ELSE Fail
               [] op.text = "gather" ->
                    IF /\ IsWord(w1) /\ IsWord(w2) /\ IsInt(w2.text)
                       /\ w1.text \in DOMAIN RESOURCE_MAP
                    THEN ParseOps(ts, p + 3,
                                  Append(ops, OpDef(OP_GATHER, to_i32(w2.text),
                                                    RESOURCE_MAP[w1.text])))
                    ELSE Fail
               [] op.text = "craft" ->
                    IF /\ IsWord(w1) /\ IsWord(w2) /\ IsInt(w2.text)
                       /\ w1.text \in DOMAIN ITEM_MAP
                    THEN ParseOps(ts, p + 3,
                                  Append(ops, OpDef(OP_CRAFT, to_i32(w2.text),
                                                    ITEM_MAP[w1.text])))
                    ELSE Fail
               [] op.text = "trade" ->
                    ParseOps(ts, p + 1, Append(ops, OpDef(OP_TRADE, 0, 0)))
               [] op.text = "rest" ->
                    ParseOps(ts, p + 1, Append(ops, OpDef(OP_REST, 0, 0)))
               [] op.text = "roam" ->
                    IF IsWord(w1) /\ IsInt(w1.text)
                    THEN ParseOps(ts, p + 2,
                                  Append(ops, OpDef(OP_ROAM, to_i32(w1.text), 0)))
                    ELSE Fail
               [] OTHER -> Fail

\* parse_task, after the word "task": the vocation with the task appended
TaskDone(voc, name, r) ==
    IF r.err THEN Fail
    ELSE [err |-> FALSE, pos |-> r.pos,
          voc |-> [voc EXCEPT !.tasks = Append(@, TaskDef(name, r.ops))]]

parse_task(ts, p, voc) ==
    IF ~(IsWord(Peek(ts, p)) /\ Peek(ts, p + 1).kind = TK_LBRACE) THEN Fail
    ELSE TaskDone(voc, Peek(ts, p).text, ParseOps(ts, p + 2, <<>>))

\* the end of parse_rule, from the token after the weight
RuleEnd(ts, q, cond) ==
    LET maybe == Peek(ts, q)
        pv == Peek(ts, q + 1)
    IN  IF IsWord(maybe) /\ maybe.text = "prob"
        THEN IF IsWord(pv) /\ IsFloat(pv.text) /\ Peek(ts, q + 2).kind = TK_RBRACE
             THEN [err |-> FALSE, pos |-> q + 3,
                   cond |-> [cond EXCEPT !.has_prob = TRUE,
                                         !.prob = ClampProb(to_f32(pv.text))]]
             ELSE Fail
        ELSE IF maybe.kind = TK_RBRACE
             THEN [err |-> FALSE, pos |-> q + 1, cond |-> cond]
             ELSE Fail

\* parse_rule, after the word "rule": the vocation with the rule appended
RuleDone(voc, name, task_name, weight, e) ==
    IF e.err THEN Fail
    ELSE [err |-> FALSE, pos |-> e.pos,
          voc |-> [voc EXCEPT !.rules =
                      Append(@, RuleDef(name, e.cond, task_name, weight))]]

\* parse_rule after its condition c: the task name, the weight and the end
AfterCondition(ts, voc, name, c) ==
    IF c.err THEN Fail
    ELSE LET task_name == Peek(ts, c.pos)
             weight_kw == Peek(ts, c.pos + 1)
             weight == Peek(ts, c.pos + 2)
         IN  IF ~(/\ IsWord(task_name)
                  /\ IsWord(weight_kw) /\ weight_kw.text = "weight"
                  /\ IsWord(weight) /\ IsInt(weight.text)) THEN Fail
             ELSE RuleDone(voc, name, task_name.text, to_i32(weight.text),
                           RuleEnd(ts, c.pos + 3, c.cond))

parse_rule(ts, p, voc) ==
    IF ~(/\ IsWord(Peek(ts, p))
         /\ Peek(ts, p + 1).kind = TK_LBRACE
         /\ IsWord(Peek(ts, p + 2))
         /\ Peek(ts, p + 2).text = "when") THEN Fail
    ELSE AfterCondition(ts, voc, Peek(ts, p).text, parse_condition(ts, p + 3))

\* the loop skipping an unknown { ... }: the position at which it stops
RECURSIVE SkipBlock(_, _, _)
SkipBlock(ts, p, depth) ==
    IF depth <= 0 THEN p
    ELSE LET x == next_tok(ts, p)
         IN  IF x.tok.kind = TK_EOF THEN x.pos
             ELSE IF x.tok.kind = TK_LBRACE THEN SkipBlock(ts, x.pos, depth + 1)
             ELSE IF x.tok.kind = TK_RBRACE THEN SkipBlock(ts, x.pos, depth - 1)
             ELSE SkipBlock(ts, x.pos, depth)

\* the body loop of one vocation, from position p
RECURSIVE ParseBody(_, _, _)

\* the body loop goes on after the task or rule r
AfterItem(ts, r) == IF r.err THEN Fail ELSE ParseBody(ts, r.pos, r.voc)

\* an unknown keyword: its { ... } or its single value is skipped
SkipUnknown(ts, maybe) ==
    IF maybe.tok.kind = TK_LBRACE THEN SkipBlock(ts, maybe.pos, 1) ELSE maybe.pos

ParseBody(ts, p, voc) ==
    LET k == next_tok(ts, p)
    IN  IF k.tok.kind = TK_RBRACE THEN [err |-> FALSE, pos |-> k.pos, voc |-> voc]
        ELSE IF ~IsWord(k.tok) THEN Fail
        ELSE IF k.tok.text = "task" THEN AfterItem(ts, parse_task(ts, k.pos, voc))
        ELSE IF k.tok.text = "rule" THEN AfterItem(ts, parse_rule(ts, k.pos, voc))
        ELSE ParseBody(ts, SkipUnknown(ts, next_tok(ts, k.pos)), voc)

TaskNames(voc) == {voc.tasks[j].name : j \in 1..Len(voc.tasks)}

\* the loop over voc.rules of the post-fix, from rule k; task_names is the
\* set computed before the loop
RECURSIVE FixRules(_, _, _)
FixRules(voc, k, task_names) ==
    IF k > Len(voc.rules) THEN voc
    ELSE IF voc.rules[k].task_name \in task_names
         THEN FixRules(voc, k + 1, task_names)
         ELSE IF voc.tasks # <<>>
              THEN FixRules([voc EXCEPT !.rules[k].task_name = voc.tasks[1].name],
                            k + 1, task_names)
              ELSE FixRules([voc EXCEPT
                               !.tasks = Append(@, TaskDef("idle", <<OpDef(OP_REST, 0, 0)>>)),
                               !.rules[k].task_name = "idle"],
                            k + 1, task_names)

\* mutant of post_fix: the rules are left as parsed
post_fix_Skip(voc) == voc

\* the post-fix of the rules of a finished vocation
post_fix(voc) == FixRules(voc, 1, TaskNames(voc))

\* one round of the loop of parse_vocations_block after the word
\* "vocation", from position p: the vocation as parsed (raw) and post-fixed
VocationDone(b) ==
    IF b.err THEN Fail
    ELSE [err |-> FALSE, pos |-> b.pos, raw |-> b.voc, voc |-> post_fix(b.voc)]

parse_vocation(ts, p) ==
    IF ~(IsWord(Peek(ts, p)) /\ Peek(ts, p + 1).kind = TK_LBRACE) THEN Fail
    ELSE VocationDone(ParseBody(ts, p + 2, VocationDef(Peek(ts, p).text, <<>>, <<>>)))

\* ---- the token streams considered ----
MaxPieces == 3          \* pieces between the first "{" of a vocation and the end
MaxCut == 3             \* tokens cut off the end of the stream

SepPiece == <<RB, W("vocation"), W("fisher"), LB>>

Pieces ==
    {<<W("task"), W("t1"), LB, W("rest"), RB>>,
     <<W("task"), W("t2"), LB, W("gather"), W("fish"), W("2"), W("roam"), W("-5"),
       W("craft"), W("pot"), W("1"), W("move_to"), W("field"), W("trade"), RB>>,
     <<W("rule"), W("r1"), LB, W("when"), W("hunger"), W(">"), W("0.5"),
       W("do"), W("t1"), W("weight"), W("2"), RB>>,
     <<W("rule"), W("r2"), LB, W("when"), W("prob"), W("1.5"), W("and"),
       W("inv"), W("fish"), W(">="), W("0"), W("do"), W("ghost"),
       W("weight"), W("1"), RB>>,
     <<W("rule"), W("r3"), LB, W("when"), W("season"), W("=="), W("winter"),
       W("and"), W("fatigue"), W("<"), W("0.9"), W("do"), W("idle"),
       W("weight"), W("1"), W("prob"), W("0.5"), RB>>,
     <<W("note"), W("x")>>,
     <<W("meta"), LB, W("a"), LB, W("b"), RB, RB>>,
     <<W("orphan")>>,
     <<W("task"), W("t3"), LB, W("fly"), RB>>,
     SepPiece}

RECURSIVE Flatten(_, _)
Flatten(ps, k) == IF k > Len(ps) THEN <<>> ELSE ps[k] \o Flatten(ps, k + 1)

\* the vocations block "{ vocation farmer { pieces } }"
Stream(ps) == <<LB, W("vocation"), W("farmer"), LB>> \o Flatten(ps, 1) \o <<RB, RB>>

\* the streams of up to n pieces with up to m tokens cut off the end, and the
\* empty block
Streams(n, m) ==
    {<<LB, RB>>}
    \cup {SubSeq(Stream(ps), 1, Len(Stream(ps)) - c) :
             ps \in SeqsUpTo(Pieces, n), c \in 0..m}

InitParse ==
    /\ toks \in Streams(MaxPieces, MaxCut)
    /\ pos = 0
    /\ pstate = "start"
    /\ voc_table = <<>>
    /\ rawVocs = <<>>
    /\ ct_in = <<>>
    /\ ct_out = <<>>

\* lx.expect(TK_LBRACE) at the head of parse_vocations_block
ParseOpen ==
    /\ pstate = "start"
    /\ IF Peek(toks, pos).kind = TK_LBRACE
       THEN pstate' = "vocs" /\ pos' = pos + 1
       ELSE pstate' = "error" /\ pos' = next_tok(toks, pos).pos
    /\ UNCHANGED <<toks, voc_table, rawVocs>>
    /\ UNCHANGED <<cacheVars, simVars, chooseVars>>

IsVocationWord(t) == IsWord(t) /\ t.text = "vocation"

\* one round of the loop: a vocation is parsed, post-fixed and in the table
ParseVocation ==
    /\ pstate = "vocs"
    /\ IsVocationWord(Peek(toks, pos))
    /\ \E r \in {parse_vocation(toks, pos + 1)} :
          /\ ~r.err
          /\ pos' = r.pos
          /\ voc_table' = Append(voc_table, r.voc)
          /\ rawVocs' = Append(rawVocs, r.raw)
    /\ UNCHANGED <<toks, pstate>>
    /\ UNCHANGED <<cacheVars, simVars, chooseVars>>

\* the "}" of the vocations block: parse_vocations_block returns
ParseClose ==
    /\ pstate = "vocs"
    /\ Peek(toks, pos).kind = TK_RBRACE
    /\ pstate' = "done"
    /\ pos' = pos + 1
    /\ UNCHANGED <<toks, voc_table, rawVocs>>
    /\ UNCHANGED <<cacheVars, simVars, chooseVars>>

\* a ValueError in the loop: the parse is abandoned, and with it the
\* vocation under construction
ParseFail ==
    /\ pstate = "vocs"
    /\ Peek(toks, pos).kind # TK_RBRACE
    /\ IsVocationWord(Peek(toks, pos)) => parse_vocation(toks, pos + 1).err
    /\ pstate' = "error"
    /\ UNCHANGED <<toks, pos, voc_table, rawVocs>>
    /\ UNCHANGED <<cacheVars, simVars, chooseVars>>

\* choose_task for an agent of a parsed vocation
ParsedChoose ==
    /\ pstate = "done"
    /\ ct_out = <<>>
    /\ \E v \in 1..Len(voc_table), h \in HungerChoices, day \in DayChoices,
          roll \in RollChoices, raw \in 0..MaxRaw :
          /\ ct_in' = ChooseInput(voc_table, ChooseAgent(v - 1, h), day, roll, raw)
          /\ ct_out' = ChooseTask(voc_table, [day |-> day],
                                  ChooseAgent(v - 1, h), roll, raw)
    /\ UNCHANGED parseVars
    /\ UNCHANGED <<cacheVars, simVars>>

NextParse == ParseOpen \/ ParseVocation \/ ParseClose \/ ParseFail \/ ParsedChoose

ParseStart == InitParse /\ CacheOff /\ SimOff

SpecParse == ParseStart /\ [][NextParse]_vars

\* ------------------------------------------------------------------------
\* parse_bronze_file (SpecFile): the top-level loop over the token stream,
\* one action per round of a loop.  pstate is "top" at the head of the outer
\* loop, the name of the block inside the loop of a key/value block,
\* "returned" when cfg is returned and "error" after a ValueError; cfg is
\* the ParsedConfig under construction.  The program runs alone and always
\* takes its next step (weak fairness of the step).
\* ------------------------------------------------------------------------
KvBlocks == {"world", "sim", "agents", "settlements", "resources"}

RenewKeys ==
    ("fish_renew" :> RES_FISH) @@ ("grain_renew" :> RES_GRAIN)
    @@ ("wood_renew" :> RES_WOOD) @@ ("clay_renew" :> RES_CLAY)
    @@ ("copper_renew" :> RES_COPPER) @@ ("tin_renew" :> RES_TIN)
    @@ ("fire_renew" :> RES_FIRE) @@ ("plant_fiber_renew" :> RES_PLANT_FIBER)
    @@ ("cattle_renew" :> RES_CATTLE) @@ ("sheep_renew" :> RES_SHEEP)
    @@ ("pig_renew" :> RES_PIG) @@ ("charcoal_renew" :> RES_CHARCOAL)
    @@ ("religion_renew" :> RES_RELIGION) @@ ("tribalism_renew" :> RES_TRIBALISM)

\* _to_u32 on the small numbers of the streams considered
to_u32(s) == IF to_i32(s) < 0 THEN 0 ELSE to_i32(s)

Max2(a, b) == IF a > b THEN a ELSE b

\* the keys of each block whose value is read with _to_i32 or _to_u32
IntKeys(block) ==
    CASE block = "world" -> {"seed", "days", "cache_max", "snapshot_every",
                             "map_every", "agents", "settlements"}
      [] block = "sim" -> {"days", "cache_max", "snapshot_every", "map_every"}
      [] block = "agents" -> {"count"}
      [] block = "settlements" -> {"count"}
      [] OTHER -> {}

\* the conversion of the value v of key k raises ValueError
KvRaises(block, k, v) ==
    IF block = "resources" THEN ~IsFloat(v)
    ELSE k \in IntKeys(block) /\ ~IsInt(v)

\* the assignment a key/value pair of a block makes to cfg
KvSet(block, k, v, c) ==
    CASE block = "resources" ->
           IF k \in DOMAIN RenewKeys
           THEN [c EXCEPT !.renew[RenewKeys[k]] = to_f32(v) * 10] ELSE c
      [] k \notin IntKeys(block) -> c
      [] k = "seed" -> [c EXCEPT !.seed = to_u32(v)]
      [] k = "days" -> [c EXCEPT !.days = to_i32(v)]
      [] k = "cache_max" -> [c EXCEPT !.cache_max = Max2(16, to_i32(v))]
      [] k = "snapshot_every" -> [c EXCEPT !.snapshot_every_days = to_i32(v)]
      [] k = "map_every" -> [c EXCEPT !.map_every_days = to_i32(v)]
      [] k = "agents" -> [c EXCEPT !.agent_count = Max2(1, to_i32(v))]
      [] k = "settlements" -> [c EXCEPT !.settlement_count = Max2(1, to_i32(v))]
      [] k = "count" /\ block = "agents" ->
           [c EXCEPT !.agent_count = Max2(1, to_i32(v))]
      [] k = "count" /\ block = "settlements" ->
           [c EXCEPT !.settlement_count = Max2(1, to_i32(v))]
      [] OTHER -> c

\* the loop of parse_vocations_block as a whole, from position p, appending
\* to the vocations of table
RECURSIVE VocLoop(_, _, _)

AfterVocation(ts, table, r) ==
    IF r.err THEN Fail ELSE VocLoop(ts, r.pos, Append(table, r.voc))

VocLoop(ts, p, table) ==
    LET t == Peek(ts, p)
    IN  IF t.kind = TK_RBRACE THEN [err |-> FALSE, pos |-> p + 1, table |-> table]
        ELSE IF ~(IsWord(t) /\ t.text = "vocation") THEN Fail
        ELSE AfterVocation(ts, table, parse_vocation(ts, p + 1))

parse_vocations_block(ts, p, table) ==
    IF Peek(ts, p).kind # TK_LBRACE THEN Fail ELSE VocLoop(ts, p + 1, table)

\* ---- the token streams considered ----
MaxFilePieces == 3      \* pieces after the first "{" of the stream

FileBlocks == KvBlocks \cup {"vocations", "junk"}

FilePieces ==
    {<<RB>>,
     <<LB>>,
     <<W("days"), W("2")>>,
     <<W("count"), W("0")>>,
     <<W("fish_renew"), W("0.5")>>,
     <<W("seed")>>,
     <<W("vocation"), W("farmer"), LB, RB>>,
     <<W("sim"), LB>>}

\* the streams "block { pieces": a block and up to n pieces
FileStreams(n) ==
    {<<W(b), LB>> \o Flatten(ps, 1) : b \in FileBlocks, ps \in SeqsUpTo(FilePieces, n)}

FileStart ==
    /\ toks \in FileStreams(MaxFilePieces)
    /\ pos = 0
    /\ pstate = "top"
    /\ cfg = ParsedConfig
    /\ voc_table = <<>>
    /\ rawVocs = <<>>
    /\ pc = "off"
    /\ sim = <<>>
    /\ reports = <<>>
    /\ snapshots = <<>>
    /\ exit_code = -1
    /\ preSwitch = <<>>
    /\ CacheOff
    /\ ChooseOff

FileFrame ==
    /\ UNCHANGED <<toks, voc_table, rawVocs>>
    /\ UNCHANGED <<pc, sim, reports, snapshots, exit_code, preSwitch>>
    /\ UNCHANGED <<cacheVars, chooseVars>>

\* the outer loop ends at TK_EOF: cfg is returned
FileReturn ==
    /\ pstate = "top"
    /\ Peek(toks, pos).kind = TK_EOF
    /\ pstate' = "returned"
    /\ UNCHANGED <<pos, cfg>>
    /\ FileFrame

\* a brace at top level is passed over
FileSkipToken ==
    /\ pstate = "top"
    /\ Peek(toks, pos).kind \in {TK_LBRACE, TK_RBRACE}
    /\ pos' = pos + 1
    /\ UNCHANGED <<pstate, cfg>>
    /\ FileFrame

\* the head of a key/value block: lx.expect(TK_LBRACE)
FileBlockOpen ==
    /\ pstate = "top"
    /\ IsWord(Peek(toks, pos))
    /\ Peek(toks, pos).text \in KvBlocks
    /\ IF Peek(toks, pos + 1).kind = TK_LBRACE
       THEN pstate' = Peek(toks, pos).text /\ pos' = pos + 2
       ELSE pstate' = "error" /\ pos' = next_tok(toks, pos + 1).pos
    /\ UNCHANGED cfg
    /\ FileFrame

\* one round of the loop of a key/value block: the "}" ends the block
KvClose ==
    /\ pstate \in KvBlocks
    /\ Peek(toks, pos).kind = TK_RBRACE
    /\ pstate' = "top"
    /\ pos' = pos + 1
    /\ UNCHANGED cfg
    /\ FileFrame

\* one round of the loop of a key/value block: a token that is neither "}"
\* nor a word, TK_EOF included, is passed over by "continue"
KvSkip ==
    /\ pstate \in KvBlocks
    /\ Peek(toks, pos).kind \in {TK_LBRACE, TK_EOF}
    /\ pos' = next_tok(toks, pos).pos
    /\ UNCHANGED <<pstate, cfg>>
    /\ FileFrame

\* one round of the loop of a key/value block: a key and its value
KvPair ==
    /\ pstate \in KvBlocks
    /\ IsWord(Peek(toks, pos))
    /\ IF IsWord(Peek(toks, pos + 1))
          /\ ~KvRaises(pstate, Peek(toks, pos).text, Peek(toks, pos + 1).text)
       THEN /\ cfg' = KvSet(pstate, Peek(toks, pos).text, Peek(toks, pos + 1).text, cfg)
            /\ pos' = pos + 2
            /\ UNCHANGED pstate
       ELSE /\ pstate' = "error"
            /\ pos' = next_tok(toks, pos + 1).pos
            /\ UNCHANGED cfg
    /\ FileFrame

\* the vocations block
FileVocations ==
    /\ pstate = "top"
    /\ IsWord(Peek(toks, pos))
    /\ Peek(toks, pos).text = "vocations"
    /\ \E r \in {parse_vocations_block(toks, pos + 1, cfg.voc_table)} :
          IF r.err
          THEN pstate' = "error" /\ UNCHANGED <<pos, cfg>>
          ELSE /\ pos' = r.pos
               /\ cfg' = [cfg EXCEPT !.voc_table = r.table]
               /\ UNCHANGED pstate
    /\ FileFrame

\* any other word: its { ... } is skipped, or the token after it
FileUnknown ==
    /\ pstate = "top"
    /\ IsWord(Peek(toks, pos))
    /\ Peek(toks, pos).text \notin FileBlocks \ {"junk"}
    /\ pos' = SkipUnknown(toks, next_tok(toks, pos + 1))
    /\ UNCHANGED <<pstate, cfg>>
    /\ FileFrame

NextFile ==
    \/ FileReturn \/ FileSkipToken \/ FileBlockOpen \/ KvClose \/ KvSkip
    \/ KvPair \/ FileVocations \/ FileUnknown

SpecFile == FileStart /\ [][NextFile]_vars /\ WF_vars(NextFile)

\* ------------------------------------------------------------------------
\* Single calls of the agent operations (SpecOps).  ct_in holds the call:
\* the simulator s it is made on (agent number 0 acts), the op of exec_task
\* or the draws of the day; ct_out holds <<s'>>, the simulator it leaves.
\* ------------------------------------------------------------------------
PoolChoices == {0, 19, 20, 45, 100}       \* resources_pool[rk]
WantChoices == {-1, 0, 1, 3}              \* arg_i of gather and craft
CraftItems == {ITEM_POT, ITEM_BRONZE, ITEM_TOOL, ITEM_FISH}

\* the inventories of the agent that crafts or gathers
Inv(fish, wood, clay, copper, tin, bronze) ==
    [it \in Items |->
        CASE it = ITEM_FISH -> fish [] it = ITEM_WOOD -> wood
          [] it = ITEM_CLAY -> clay [] it = ITEM_COPPER -> copper
          [] it = ITEM_TIN -> tin [] it = ITEM_BRONZE -> bronze
          [] OTHER -> 0]
InvChoices ==
    {Inv(0, 0, 0, 0, 0, 0), Inv(0, 20, 0, 5, 5, 0), Inv(1, 3, 3, 1, 2, 1),
     Inv(0, 2, 5, 2, 2, 2), Inv(0, 8, 0, 0, 0, 0)}

\* the needs of the agent once drift, eat and apprenticeship are done
ActHungers == {60, 95, 96, 100}           \* hundredths
ActFatigues == {100, 899, 900, 950}       \* thousandths
ActHealths == {1, 100}                    \* hundredths, of an agent alive
ActInvs == {Inv(0, 0, 0, 0, 0, 0), Inv(0, 8, 0, 0, 0, 0), Inv(1, 8, 0, 0, 0, 0)}

\* a village of one farmer on its first day
OpsSim ==
    [sim_init_from_cfg([CfgVillage EXCEPT !.agent_count = 1],
                       [age |-> <<30>>, rr |-> <<10>>, spawn |-> <<<<100, 100>>>>,
                        site |-> <<<<1000, 1000>>>>, val |-> <<50>>])
        EXCEPT !.day = 1]

OpsInput(call, s, op, roll, raw) ==
    [call |-> call, s |-> s, op |-> op, roll |-> roll, raw |-> raw]

GatherInputs ==
    {OpsInput("gather",
              [OpsSim EXCEPT !.resources_pool[rk] = p, !.agents[1].inv = inv],
              OpDef(OP_GATHER, want, rk), 600, 0) :
        rk \in Resources, p \in PoolChoices, want \in WantChoices,
        inv \in {Inv(0, 0, 0, 0, 0, 0), Inv(1, 3, 3, 1, 2, 1)}}

CraftInputs ==
    {OpsInput("craft", [OpsSim EXCEPT !.agents[1].inv = inv],
              OpDef(OP_CRAFT, n, item), 600, 0) :
        item \in CraftItems, n \in WantChoices, inv \in InvChoices}

\* after eat an agent that holds fish or grain is below hunger 0.70
ActInputs ==
    {c \in {OpsInput("act",
                     [OpsSim EXCEPT !.agents[1].hunger = h, !.agents[1].fatigue = f,
                                    !.agents[1].health = hl, !.agents[1].inv = inv,
                                    !.agents[1].vocation_id = v],
                     OpDef(OP_REST, 0, 0), 600, 0) :
                h \in ActHungers, f \in ActFatigues, hl \in ActHealths,
                inv \in ActInvs, v \in {-1, 1}} :
        c.s.agents[1].inv[ITEM_FISH] = 0 \/ c.s.agents[1].hunger <= 70}

\* the agent that eats: its hunger after the drift of the day, its fish and
\* grain; it holds 8 wood
EatHungers == {18, 70, 71, 88, 100}       \* hundredths
EatCounts == {0, 1, 3}
EatInputs ==
    {OpsInput("eat",
              [OpsSim EXCEPT !.agents[1].hunger = h,
                             !.agents[1].inv = [Inv(f, 8, 0, 0, 0, 0) EXCEPT ![ITEM_GRAIN] = g]],
              OpDef(OP_REST, 0, 0), 600, 0) :
        h \in EatHungers, f \in EatCounts, g \in EatCounts}

\* the agent at the start of its day: its hunger before the drift, its
\* fish and grain, its health and its fatigue
DayHungers == {10, 52, 53, 80, 100}       \* hundredths
DayCounts == {0, 1, 2}
DayHealths == {1, 100}                    \* hundredths
DayFatigues == {100, 990}                 \* thousandths

DayInputs ==
    {OpsInput("agent_day",
              [OpsSim EXCEPT !.agents[1].hunger = h, !.agents[1].health = hl,
                             !.agents[1].fatigue = ft,
                             !.agents[1].inv = [Inv(f, 0, 0, 0, 0, 0) EXCEPT ![ITEM_GRAIN] = g]],
              OpDef(OP_REST, 0, 0), 600, 0) :
        h \in DayHungers, f \in DayCounts, g \in DayCounts, hl \in DayHealths,
        ft \in DayFatigues}

\* the inventories of the agent that trades
TradeInvs ==
    {Agent.inv,
     [Agent.inv EXCEPT ![ITEM_WOOD] = 8],
     [Agent.inv EXCEPT ![ITEM_BRONZE] = 9],
     [Agent.inv EXCEPT ![ITEM_FISH] = 7, ![ITEM_GRAIN] = 7],
     [Agent.inv EXCEPT ![ITEM_FISH] = 2, ![ITEM_GRAIN] = 2, ![ITEM_TOOL] = 6, ![ITEM_POT] = 6],
     [Agent.inv EXCEPT ![ITEM_WOOD] = 6, ![ITEM_CLAY] = 10, ![ITEM_COPPER] = 6],
     [Agent.inv EXCEPT ![ITEM_FISH] = 5, ![ITEM_TIN] = 5],
     [Agent.inv EXCEPT ![ITEM_FISH] = 3, ![ITEM_GRAIN] = 3, ![ITEM_TOOL] = 3,
                       ![ITEM_POT] = 3, ![ITEM_BRONZE] = 20],
     [Agent.inv EXCEPT ![ITEM_FISH] = -5, ![ITEM_BRONZE] = 8]}

TradeInputs ==
    {OpsInput("trade",
              [OpsSim EXCEPT !.agents[1].inv = inv,
                             !.settlements[1] = Settlement(<<1000, 1000>>, r)],
              OpDef(OP_TRADE, 0, 0), 600, 0) :
        inv \in TradeInvs, r \in ValChoices}

\* a household of two: agent 0, whose apprenticeship is looked at, and
\* agent 1; the older is the parent, agent 0 when both are of an age
ApprAges == {9, 10, 16, 17}               \* a.age of agent 0
ApprOthers == {8, 16, 30}                 \* a.age of agent 1
ApprSim(age, other, v, pv) ==
    [sim_init_from_cfg([CfgVillage EXCEPT !.agent_count = 2],
                       [age |-> <<age, other>>, rr |-> <<10, 50>>,
                        spawn |-> <<<<100, 100>>, <<100, 100>>>>,
                        site |-> <<<<1000, 1000>>>>, val |-> <<50>>])
        EXCEPT !.day = 1, !.agents[1].vocation_id = v, !.agents[2].vocation_id = pv]

ApprInputs ==
    {OpsInput("apprenticeship", ApprSim(age, other, v, pv),
              OpDef(OP_REST, 0, 0), r, 0) :
        age \in ApprAges, other \in ApprOthers, v \in {0, 1}, pv \in {1, 2},
        r \in ApprChoices}

\* the conditions cond_eval is called on: every clause absent or present;
\* the condition is that of the one rule of the agent's vocation
CondInvClauses ==
    {<<>>} \cup {<<<<ITEM_FISH, ck, 2>>>> : ck \in {CMP_GT, CMP_LT, CMP_GE, CMP_LE}}
           \cup {<<<<ITEM_FISH, CMP_GE, 2>>, <<ITEM_WOOD, CMP_LT, 9>>>>}
CondChoices ==
    {[has_hunger |-> hh, hunger_threshold |-> IF hh THEN 500 ELSE 0,
      has_fatigue |-> hf, fatigue_threshold |-> IF hf THEN 500 ELSE 0,
      season_eq |-> se,
      inv_item |-> [k \in 1..Len(iv) |-> iv[k][1]],
      inv_cmp |-> [k \in 1..Len(iv) |-> iv[k][2]],
      inv_value |-> [k \in 1..Len(iv) |-> iv[k][3]],
      has_prob |-> hp, prob |-> IF hp THEN 500 ELSE 0] :
        hh \in BOOLEAN, hf \in BOOLEAN, hp \in BOOLEAN,
        se \in {SEASON_ANY, SEASON_SPRING, SEASON_WINTER}, iv \in CondInvClauses}
CondDays == {45, 300}                     \* sim.day: of spring, of winter
CondRolls == {100, 500}                   \* rng_f01, in thousandths

CondInputs ==
    {OpsInput("cond_eval",
              [OpsSim EXCEPT
                  !.day = d, !.agents[1].vocation_id = 0,
                  !.agents[1].hunger = h, !.agents[1].fatigue = f,
                  !.agents[1].inv = Inv(fish, 8, 0, 0, 0, 0),
                  !.voc_table = <<VocationDef("v",
                                     <<TaskDef("t", <<OpDef(OP_REST, 0, 0)>>)>>,
                                     <<RuleDef("r", c, "t", 1)>>)>>],
              OpDef(OP_REST, 0, 0), roll, 0) :
        c \in CondChoices, d \in CondDays, roll \in CondRolls,
        h \in {50, 80}, f \in {100, 500}, fish \in {1, 2, 3}}

\* a household of three at the end of a day: agent 0 of 30 is the parent
\* and holds the goods; agents 1 and 2 are 16 or 17, agent 2 may be dead
GuildTables ==
    {<<VocationDef("farmer", <<>>, <<>>), VocationDef("fisher", <<>>, <<>>),
       VocationDef("smith", <<>>, <<>>), VocationDef("potter", <<>>, <<>>)>>,
     <<VocationDef("farmer", <<>>, <<>>), VocationDef("fisher", <<>>, <<>>),
       VocationDef("trader", <<>>, <<>>)>>}
\* what the alive hold of grain, fish, tool and pot
GuildGoods ==
    {<<0, 0, 0, 0>>, <<9, 0, 2, 2>>, <<9, 6, 0, 2>>, <<9, 6, 2, 0>>, <<9, 6, 2, 2>>,
     <<3, 2, 2, 2>>, <<2, 4, 2, 2>>}
SwitchDays == {45, 60}                    \* sim.day
GuildSim(table, a1, a2, h2, v1, v2, goods, d) ==
    [sim_init_from_cfg([ParsedConfig EXCEPT !.agent_count = 3, !.settlement_count = 1,
                                            !.voc_table = table],
                       [age |-> <<30, a1, a2>>, rr |-> <<10, 10, 10>>,
                        spawn |-> [k \in 1..3 |-> <<100, 100>>],
                        site |-> <<<<1000, 1000>>>>, val |-> <<50>>])
        EXCEPT !.day = d,
               !.agents[1].inv = [Agent.inv EXCEPT ![ITEM_GRAIN] = goods[1],
                                                   ![ITEM_FISH] = goods[2],
                                                   ![ITEM_TOOL] = goods[3],
                                                   ![ITEM_POT] = goods[4]],
               !.agents[2].vocation_id = v1,
               !.agents[3].vocation_id = v2,
               !.agents[3].health = h2]

\* roll holds the value of rng_f01 for each of the three agents
SwitchInputs ==
    {OpsInput("role_switching", GuildSim(table, a1, a2, h2, v1, v2, goods, d),
              OpDef(OP_REST, 0, 0), r, 0) :
        table \in GuildTables, a1 \in {16, 17}, a2 \in {16, 17}, h2 \in {0, 100},
        v1 \in {0, 1}, v2 \in {0, 2}, goods \in GuildGoods, d \in SwitchDays,
        r \in [1..3 -> SwitchChoices]}

\* a hamlet of three adults on scarce fish: farmers take 2 grain, fishers 2
\* fish and traders 3 fish a day; fish_renew 0.0001 renews 25 points a day
HamletTable ==
    <<VocationDef("farmer", <<TaskDef("reap", <<OpDef(OP_GATHER, 2, RES_GRAIN)>>)>>,
                  <<RuleDef("r", WhenHungerAbove(0), "reap", 1)>>),
      VocationDef("fisher", <<TaskDef("fish", <<OpDef(OP_GATHER, 2, RES_FISH)>>)>>,
                  <<RuleDef("r", WhenHungerAbove(0), "fish", 1)>>),
      VocationDef("trader", <<TaskDef("net", <<OpDef(OP_GATHER, 3, RES_FISH)>>)>>,
                  <<RuleDef("r", WhenHungerAbove(0), "net", 1)>>)>>

CfgHamlet ==
    [ParsedConfig EXCEPT
        !.agent_count = 3, !.settlement_count = 1,
        !.renew = [DefaultRenew EXCEPT ![RES_FISH] = 1],
        !.voc_table = HamletTable]

HamletPools == {4, 19, 39, 64, 99}      \* the fish left in the pool
HamletDays == {29, 44}                  \* sim.day before the step

\* the hamlet on the eve of the step: the vocations are those of the rolls
\* rr, and the second agent may have died
HamletSim(rr, h1, p, d) ==
    [sim_init_from_cfg(CfgHamlet,
                       [age |-> <<30, 20, 20>>, rr |-> rr,
                        spawn |-> <<<<100, 100>>, <<100, 100>>, <<100, 100>>>>,
                        site |-> <<<<1000, 1000>>>>, val |-> <<50>>])
        EXCEPT !.day = d, !.resources_pool[RES_FISH] = p, !.agents[2].health = h1]

StepInputs ==
    {OpsInput("sim_step", HamletSim(rr, h1, p, d), OpDef(OP_REST, 0, 0), 600, 0) :
        rr \in [1..3 -> {10, 50, 99}], h1 \in {0, 100}, p \in HamletPools,
        d \in HamletDays}

\* configurations of 1, 5, 6 and 11 agents in 1, 2 and 3 settlements, and
\* ages sim_init_from_cfg can draw for them: any of two for the first six
\* agents, the greater for the others
CensusCounts == {1, 5, 6, 11}
CensusSettlements == {1, 2, 3}
CensusAges == {17, 30}
CensusRolls == {10, 99}     \* the first agent's roll: a farmer, or the default

CensusDraw(n, m, age) ==
    [age |-> age, rr |-> [k \in 1..n |-> 10], spawn |-> [k \in 1..n |-> <<100, 100>>],
     site |-> [k \in 1..m |-> <<1000, 1000>>], val |-> [k \in 1..m |-> 50]]

InitInputs ==
    UNION {{OpsInput("sim_init_from_cfg",
                     [CfgVillage EXCEPT !.agent_count = n, !.settlement_count = m],
                     OpDef(OP_REST, 0, 0),
                     [CensusDraw(n, m, age) EXCEPT !.rr[1] = rr1], 0) :
               m \in CensusSettlements, rr1 \in CensusRolls,
               age \in {a \in [1..n -> CensusAges] : \A k \in 1..n : k > 6 => a[k] = 30}} :
           n \in CensusCounts}

\* the clauses and ops of the blocks parsed: the words of each, and whether
\* it is an inv clause and whether it is well formed
Part(words, inv, good) == [words |-> words, inv |-> inv, good |-> good]

InvPart == Part(<<W("inv"), W("fish"), W(">="), W("1")>>, TRUE, TRUE)

ClauseParts ==
    {Part(<<W("hunger"), W(">"), W("0.5")>>, FALSE, TRUE),
     Part(<<W("fatigue"), W("<"), W("0.9")>>, FALSE, TRUE),
     Part(<<W("season"), W("=="), W("winter")>>, FALSE, TRUE),
     Part(<<W("prob"), W("0.5")>>, FALSE, TRUE),
     Part(<<W("inv"), W("pot"), W("<"), W("2")>>, TRUE, TRUE),
     Part(<<W("hunger"), W("<"), W("0.5")>>, FALSE, FALSE),
     Part(<<W("hunger"), W(">="), W("0.5")>>, FALSE, FALSE),
     Part(<<W("fatigue"), W(">"), W("0.9")>>, FALSE, FALSE),
     Part(<<W("season"), W("!="), W("winter")>>, FALSE, FALSE),
     Part(<<W("inv"), W("fish"), W("=="), W("1")>>, TRUE, FALSE),
     Part(<<W("inv"), W("gold"), W(">="), W("1")>>, TRUE, FALSE),
     Part(<<W("mood"), W(">"), W("1")>>, FALSE, FALSE)}

OpParts ==
    {Part(<<W("rest")>>, FALSE, TRUE),
     Part(<<W("gather"), W("fish"), W("2")>>, FALSE, TRUE),
     Part(<<W("craft"), W("pot"), W("1")>>, FALSE, TRUE),
     Part(<<W("move_to"), W("field")>>, FALSE, TRUE),
     Part(<<W("gather"), W("gold"), W("2")>>, FALSE, FALSE),
     Part(<<W("craft"), W("gold"), W("1")>>, FALSE, FALSE),
     Part(<<W("move_to"), W("moon")>>, FALSE, FALSE),
     Part(<<W("fly")>>, FALSE, FALSE)}

\* up to five inv clauses, alone or with one clause more put in at any place
ClauseLists ==
    {[k \in 1..n |-> InvPart] : n \in 1..5}
    \cup UNION {{[k \in 1..(n + 1) |-> IF k = i THEN x ELSE InvPart] :
                    i \in 1..(n + 1), x \in ClauseParts} : n \in 0..4}

OpLists == UNION {[1..n -> OpParts] : n \in 1..2}

\* the words of the parts, with "and" between clauses
RECURSIVE PartWords(_, _, _)
PartWords(parts, k, sep) ==
    IF k > Len(parts) THEN <<>>
    ELSE (IF k > 1 THEN sep ELSE <<>>) \o parts[k].words \o PartWords(parts, k + 1, sep)

\* vocations { vocation farmer { task t1 { ops } rule r1 { when clauses do
\* t1 weight 1 } } }
BlockStream(clauses, ops) ==
    <<LB, W("vocation"), W("farmer"), LB, W("task"), W("t1"), LB>>
    \o PartWords(ops, 1, <<>>)
    \o <<RB, W("rule"), W("r1"), LB, W("when")>>
    \o PartWords(clauses, 1, <<W("and")>>)
    \o <<W("do"), W("t1"), W("weight"), W("1"), RB, RB, RB>>

\* the field s holds the token stream and the field roll what it was made of
ParseInputs ==
    {OpsInput("parse", [toks |-> BlockStream(cl, <<Part(<<W("rest")>>, FALSE, TRUE)>>)],
              OpDef(OP_REST, 0, 0), [clauses |-> cl, ops |-> <<>>], 0) :
        cl \in ClauseLists}
    \cup {OpsInput("parse", [toks |-> BlockStream(<<InvPart>>, ops)],
                   OpDef(OP_REST, 0, 0), [clauses |-> <<InvPart>>, ops |-> ops], 0) :
             ops \in OpLists}

InitOps ==
    /\ ct_in \in GatherInputs \cup CraftInputs \cup ActInputs \cup EatInputs
                \cup TradeInputs \cup ApprInputs \cup CondInputs
                \cup SwitchInputs \cup StepInputs \cup InitInputs
                \cup ParseInputs \cup DayInputs
    /\ ct_out = <<>>

OpsFrame ==
    /\ UNCHANGED ct_in
    /\ UNCHANGED <<cacheVars, simVars, parseVars>>

\* exec_task runs one gather op
CallGather ==
    /\ ct_in # <<>> /\ ct_out = <<>>
    /\ ct_in.call = "gather"
    /\ ct_out' = <<exec_op(ct_in.s, 0, ct_in.op)>>
    /\ OpsFrame

\* exec_task runs one craft op
CallCraft ==
    /\ ct_in # <<>> /\ ct_out = <<>>
    /\ ct_in.call = "craft"
    /\ ct_out' = <<exec_op(ct_in.s, 0, ct_in.op)>>
    /\ OpsFrame

\* sim_step goes on with the agent after eat and apprenticeship
CallAct ==
    /\ ct_in # <<>> /\ ct_out = <<>>
    /\ ct_in.call = "act"
    /\ ct_out' = <<AgentAct(ct_in.s, 0, ct_in.roll, ct_in.raw)>>
    /\ OpsFrame

\* sim_step calls eat
CallEat ==
    /\ ct_in # <<>> /\ ct_out = <<>>
    /\ ct_in.call = "eat"
    /\ ct_out' = <<[ct_in.s EXCEPT !.agents[1] = eat(@)]>>
    /\ OpsFrame

\* exec_task runs one trade op
CallTrade ==
    /\ ct_in # <<>> /\ ct_out = <<>>
    /\ ct_in.call = "trade"
    /\ ct_out' = <<exec_op(ct_in.s, 0, ct_in.op)>>
    /\ OpsFrame

\* sim_step calls apprenticeship; roll is the value of its rng_f01
CallApprenticeship ==
    /\ ct_in # <<>> /\ ct_out = <<>>
    /\ ct_in.call = "apprenticeship"
    /\ ct_out' = <<[ct_in.s EXCEPT !.agents[1] = apprenticeship(ct_in.s, @, ct_in.roll)]>>
    /\ OpsFrame

\* choose_task calls cond_eval on the rule of the agent's vocation
CallCondEval ==
    /\ ct_in # <<>> /\ ct_out = <<>>
    /\ ct_in.call = "cond_eval"
    /\ ct_out' = <<cond_eval(ct_in.s.voc_table[1].rules[1].cond, ct_in.s,
                             ct_in.s.agents[1], ct_in.roll)>>
    /\ OpsFrame

\* sim_step calls role_switching
CallRoleSwitching ==
    /\ ct_in # <<>> /\ ct_out = <<>>
    /\ ct_in.call = "role_switching"
    /\ ct_out' = <<role_switching(ct_in.s, ct_in.roll)>>
    /\ OpsFrame

\* one call of sim_step
CallStep ==
    /\ ct_in # <<>> /\ ct_out = <<>>
    /\ ct_in.call = "sim_step"
    /\ \E m \in AgentLoop({Regen(ct_in.s)}, 0) :
          \E r \in SwitchDraws(m) : ct_out' = <<role_switching(m, r)>>
    /\ OpsFrame

\* one call of sim_init_from_cfg; the configuration is ct_in.s and the
\* draws are ct_in.roll
CallInit ==
    /\ ct_in # <<>> /\ ct_out = <<>>
    /\ ct_in.call = "sim_init_from_cfg"
    /\ ct_out' = <<sim_init_from_cfg(ct_in.s, ct_in.roll)>>
    /\ OpsFrame

\* one call of parse_vocations_block, on a lexer at the "{" of the block
CallParse ==
    /\ ct_in # <<>> /\ ct_out = <<>>
    /\ ct_in.call = "parse"
    /\ ct_out' = <<parse_vocations_block(ct_in.s.toks, 0, <<>>)>>
    /\ OpsFrame

\* the body of the agent loop of sim_step, for the first agent
CallDay ==
    /\ ct_in # <<>> /\ ct_out = <<>>
    /\ ct_in.call = "agent_day"
    /\ \E d \in AgentDraws(ct_in.s, 0) : ct_out' = <<AgentDay(ct_in.s, 0, d)>>
    /\ OpsFrame

NextOps == CallGather \/ CallCraft \/ CallAct \/ CallEat \/ CallTrade
           \/ CallApprenticeship \/ CallCondEval \/ CallRoleSwitching
           \/ CallStep \/ CallInit \/ CallParse \/ CallDay

OpsStart == InitOps /\ CacheOff /\ SimOff /\ ParseOff

SpecOps == OpsStart /\ [][NextOps]_vars

\* ------------------------------------------------------------------------
\* Claims about the chunk cache (checked under SpecCache)
\* ------------------------------------------------------------------------
PosIn(order, key) == CHOOSE i \in 1..Len(order) : order[i] = key

\* C4: after any sequence of get_chunk / get_cell calls the number of
\* resident chunks never exceeds max_chunks, and each key (cx, cy) is
\* resident at most once.
C4_CacheBounded ==
    /\ Len(lru) <= max_chunks
    /\ live_chunks <= max_chunks
    /\ \A i, j \in 1..Len(lru) : KeyOf(lru[i]) = KeyOf(lru[j]) => i = j

\* a miss on a full cache has just evicted a chunk and the cache is full again
C4_Witness ==
    /\ lastOp.kind = "miss"
    /\ lastOp.evicted # NoKey
    /\ Len(lru) = max_chunks

\* C5: evictions are strictly least-recently-used: a hit makes the chunk the
\* most recently used one, the resident chunks are kept in the order of
\* their last get_chunk access, and a chunk evicted by a miss was accessed
\* longer ago than every chunk that stays resident.
C5_StrictLRU ==
    /\ lastOp.kind = "hit" => KeyOf(lru[Len(lru)]) = lastOp.key
    /\ \A i, j \in 1..Len(lru) :
          i < j => PosIn(useOrder, KeyOf(lru[i])) < PosIn(useOrder, KeyOf(lru[j]))
    /\ lastOp.evicted # NoKey =>
          \A i \in 1..Len(lru) :
              PosIn(useOrder, lastOp.evicted) < PosIn(useOrder, KeyOf(lru[i]))

\* a miss evicts from a cache of two chunks, after all three keys were used
C5_Witness ==
    /\ lastOp.kind = "miss"
    /\ lastOp.evicted # NoKey
    /\ Len(lru) = 2
    /\ Len(useOrder) = 3
    /\ lastOp.again

\* C6: a chunk that is looked up, evicted and looked up again is
\* materialized with the terrain array and the 14 resource planes of its
\* first materialization.
C6_RematIdentical ==
    lastOp.kind = "miss" =>
        /\ lastOp.key \in DOMAIN firstMat
        /\ lru[Len(lru)] = firstMat[lastOp.key]

\* a chunk is materialized a second time, after regen_loaded had changed
\* the densities of resident chunks
C6_Witness ==
    /\ lastOp.kind = "miss"
    /\ lastOp.again
    /\ lastOp.evicted # NoKey
    /\ regens > 0

\* ------------------------------------------------------------------------
\* Claims about the simulation (checked under Spec)
\* ------------------------------------------------------------------------
SimBuilt == sim # <<>>

\* the agent numbered k - 1 is the parent of its own household
IsParent(s, k) == s.households[s.agents[k].household_id + 1].parent_id = k - 1

\* C1: for every agent, in every state reachable by sim_step calls from
\* sim_init_from_cfg, 0 <= hunger <= 1 and 0 <= health <= 1.
C1_HungerHealthInRange ==
    SimBuilt =>
        \A k \in 1..Len(sim.agents) :
            /\ 0 <= sim.agents[k].hunger /\ sim.agents[k].hunger <= 100
            /\ 0 <= sim.agents[k].health /\ sim.agents[k].health <= 100

\* an agent has starved to death: its hunger sits at the cap 1.0 and its
\* health at the floor 0
C1_Witness ==
    /\ SimBuilt
    /\ \E k \in 1..Len(sim.agents) :
          sim.agents[k].hunger = 100 /\ sim.agents[k].health = 0

\* C2: for every agent, in every state reachable by sim_step calls with any
\* parsed vocation table, 0 <= fatigue <= 1.
C2_FatigueInRange ==
    SimBuilt =>
        \A k \in 1..Len(sim.agents) :
            0 <= sim.agents[k].fatigue /\ sim.agents[k].fatigue <= 1000

\* C3: in every state reachable by sim_step calls with any parsed DSL
\* program, every inventory count of every agent and every count of the
\* resource pool is a non-negative integer.
C3_CountsNonNegative ==
    SimBuilt =>
        /\ \A k \in 1..Len(sim.agents) : \A it \in Items : sim.agents[k].inv[it] >= 0
        /\ \A rk \in Resources : sim.resources_pool[rk] >= 0

\* C8: role_switching never changes the vocation_id of an agent that is the
\* parent of its own household.
C8_ParentNotSwitched ==
    SimBuilt =>
        \A k \in 1..Len(sim.agents) :
            IsParent(sim, k) => sim.agents[k].vocation_id = preSwitch[k]

\* role_switching has just moved an agent into a vocation while the parent
\* of its household, alive and adult, was in another vocation and stayed
C8_Witness ==
    /\ SimBuilt
    /\ sim.day > 0
    /\ \E j, k \in 1..Len(sim.agents) :
          /\ sim.agents[j].vocation_id # preSwitch[j]
          /\ IsParent(sim, k)
          /\ sim.agents[k].household_id = sim.agents[j].household_id
          /\ sim.agents[k].health > 0
          /\ sim.agents[k].age >= 17
          /\ sim.agents[k].vocation_id # sim.agents[j].vocation_id

\* ------------------------------------------------------------------------
\* Claims about choose_task (checked under SpecChoose)
\* ------------------------------------------------------------------------
\* rule k of the vocation of the call is eligible: condition true, weight > 0
CallVoc == ct_in.vocations[ct_in.a.vocation_id + 1]
IsEligible(k) ==
    /\ cond_eval(CallVoc.rules[k].cond, [day |-> ct_in.day], ct_in.a, ct_in.roll)
    /\ CallVoc.rules[k].weight > 0

\* the sum of the weights of the eligible rules before rule k
RECURSIVE WeightBefore(_)
WeightBefore(k) ==
    IF k <= 1 THEN 0
    ELSE WeightBefore(k - 1)
         + (IF IsEligible(k - 1) THEN CallVoc.rules[k - 1].weight ELSE 0)

\* C9: when total > 0 the rule that selects the task is eligible and pick
\* lies in its cumulative-weight interval: the sum of the weights of the
\* earlier eligible rules <= pick < that sum + the rule's weight, and
\* 0 <= pick < total.
C9_PickInInterval ==
    (ct_out # <<>> /\ ct_out.total > 0) =>
        /\ ct_out.rule \in 1..Len(CallVoc.rules)
        /\ IsEligible(ct_out.rule)
        /\ WeightBefore(ct_out.rule) <= ct_out.pick
        /\ ct_out.pick < WeightBefore(ct_out.rule) + CallVoc.rules[ct_out.rule].weight
        /\ 0 <= ct_out.pick
        /\ ct_out.pick < ct_out.total

\* the third rule is selected, past an eligible and an ineligible rule, by a
\* pick on the lower end of its interval
C9_Witness ==
    /\ ct_out # <<>>
    /\ ct_out.total > 0
    /\ ct_out.rule = 3
    /\ ct_out.pick > 0
    /\ ct_out.pick = WeightBefore(3)
    /\ \E j \in 1..2 : IsEligible(j)
    /\ \E j \in 1..2 : ~IsEligible(j)

\* ------------------------------------------------------------------------
\* Claims about the parser (checked under SpecParse)
\* ------------------------------------------------------------------------
\* C10: every rule of a finished vocation names a task of the same vocation:
\* a rule that named one keeps it, a dangling reference is rewritten to the
\* first task, or to the synthesized task "idle" with the single op rest
\* when the vocation had no tasks; and the rule choose_task selects in a
\* parsed vocation always resolves to a task.
C10_RulesNameTasks ==
    /\ \A v \in 1..Len(voc_table) :
          LET raw == rawVocs[v]
              voc == voc_table[v]
          IN  /\ Len(voc.rules) = Len(raw.rules)
              /\ \A k \in 1..Len(voc.rules) :
                    /\ voc.rules[k].task_name \in TaskNames(voc)
                    /\ ResolveTask(voc, voc.rules[k].task_name) # <<>>
                    /\ raw.rules[k].task_name \in TaskNames(raw)
                          => voc.rules[k].task_name = raw.rules[k].task_name
                    /\ (raw.rules[k].task_name \notin TaskNames(raw) /\ raw.tasks # <<>>)
                          => (voc.rules[k].task_name = raw.tasks[1].name
                              /\ voc.tasks = raw.tasks)
                    /\ raw.tasks = <<>>
                          => (voc.rules[k].task_name = "idle"
                              /\ voc.tasks = <<TaskDef("idle", <<OpDef(OP_REST, 0, 0)>>)>>)
    /\ (ct_out # <<>> /\ ct_out.rule # 0) => ct_out.task # <<>>

\* the block is parsed, a rule with a dangling reference was rewritten to
\* the first task of its vocation, and choose_task selects that rule
C10_Witness ==
    /\ pstate = "done"
    /\ ct_out # <<>>
    /\ ct_out.rule # 0
    /\ LET v == ct_in.a.vocation_id + 1
       IN  /\ rawVocs[v].tasks # <<>>
           /\ rawVocs[v].rules[ct_out.rule].task_name \notin TaskNames(rawVocs[v])
           /\ ct_out.task = <<voc_table[v].tasks[1]>>

\* ------------------------------------------------------------------------
\* Claims about parse_bronze_file (checked under SpecFile)
\* ------------------------------------------------------------------------
\* C11: for every finite token stream parse_bronze_file terminates: it
\* returns a ParsedConfig or stops with a parse error, also when the closing
\* "}" of a top-level block is missing before the end of input.
C11_ParserTerminates == <>(pstate \in {"returned", "error"})

\* ------------------------------------------------------------------------
\* Claims about main (checked under Spec)
\* ------------------------------------------------------------------------
\* the days of the reports, and of the snapshots, in the order of emission
ReportDays == [k \in 1..Len(reports) |-> reports[k].day]
SnapshotDays == [k \in 1..Len(snapshots) |-> snapshots[k].day]

\* C12: in a run of main over D days a report is emitted after each day d
\* with d mod 10 = 0 and one after the final day, and the report of a given
\* day is emitted exactly once, also when D is a multiple of 10.
C12_ReportOncePerDay ==
    (pc = "exit" /\ exit_code = 0) =>
        /\ \A d \in 1..sim.day : d % 10 = 0 => \E k \in 1..Len(reports) : ReportDays[k] = d
        /\ reports # <<>> /\ ReportDays[Len(reports)] = sim.day
        /\ \A j, k \in 1..Len(reports) : ReportDays[j] = ReportDays[k] => j = k

\* the multiples of every among the days 1..day, in increasing order
RECURSIVE MultiplesUpTo(_, _)
MultiplesUpTo(every, day) ==
    IF day <= 0 THEN <<>>
    ELSE IF day % every = 0 THEN Append(MultiplesUpTo(every, day - 1), day)
         ELSE MultiplesUpTo(every, day - 1)

\* C13: after every simulated day the snapshots written are those of the
\* days d of 1..day with snapshot_every > 0 and d mod snapshot_every = 0, one
\* each; with snapshot_every <= 0 none is ever written.
C13_SnapshotIffDue ==
    SimBuilt =>
        SnapshotDays = IF cfg.snapshot_every_days > 0
                       THEN MultiplesUpTo(cfg.snapshot_every_days, sim.day)
                       ELSE <<>>

\* a run is over in which four snapshots were written and days were passed
\* over in between
C13_Witness ==
    /\ pc = "exit"
    /\ Len(snapshots) = 4
    /\ sim.day > snapshots[4].day

\* C14: with zero vocations main returns 1 without building the simulator,
\* without any sim_step and without any report or snapshot.
C14_NoVocationsExit ==
    /\ (cfg.voc_table = <<>> /\ pc # "start") =>
          (pc = "exit" /\ exit_code = 1 /\ sim = <<>> /\ reports = <<>> /\ snapshots = <<>>)
    /\ exit_code = 1 => cfg.voc_table = <<>>

\* main has returned 1
C14_Witness == pc = "exit" /\ exit_code = 1 /\ cfg.voc_table = <<>>

\* ------------------------------------------------------------------------
\* One cell of _generate_chunk (SpecGen).  ct_in holds the terrain tags of
\* the cell and its base noise: every set of the eight tags with every byte,
\* and the tracked cells of the worlds of Seeds (at names seed, x and y);
\* ct_out holds <<cell>>, the terrain and the 14 densities written.
\* ------------------------------------------------------------------------
TagSets == 0..(2 * TAG_SETTLE - 1)      \* every combination of the tags
BaseValues == 0..255                    \* h & 0xFF

GenInput(tags, base, at) == [tags |-> tags, base |-> base, at |-> at]

GenWorldInputs ==
    {GenInput(WorldCells(seed)[k][idx].tags, WorldCells(seed)[k][idx].base,
              <<seed, CellX(k[1], idx), CellY(k[2], idx)>>) :
        seed \in Seeds, k \in Keys, idx \in ObsIdx}

GenInputs ==
    {GenInput(tags, base, <<>>) : tags \in TagSets, base \in BaseValues}
    \cup GenWorldInputs

InitGen ==
    /\ ct_in \in GenInputs
    /\ ct_out = <<>>

\* the body of the inner loop of _generate_chunk, on a fresh Chunk
CallGenerate ==
    /\ ct_in # <<>> /\ ct_out = <<>>
    /\ ct_out' = <<[terrain |-> ct_in.tags,
                    res |-> GenCellRes(ct_in.tags, ct_in.base, ZeroPlanes)]>>
    /\ UNCHANGED ct_in
    /\ UNCHANGED <<cacheVars, simVars, parseVars>>

NextGen == CallGenerate

GenStart == InitGen /\ CacheOff /\ SimOff /\ ParseOff

SpecGen == GenStart /\ [][NextGen]_vars

\* ------------------------------------------------------------------------
\* Claims about single operations (checked under SpecOps)
\* ------------------------------------------------------------------------
OpsDone(call) == ct_in # <<>> /\ ct_out # <<>> /\ ct_in.call = call
OpsBefore == ct_in.s.agents[1]
OpsAfter == ct_out[1].agents[1]
MinOf(S) == CHOOSE x \in S : \A y \in S : x <= y

\* the inventory slot the claim names for a gathered resource
C15_Slot ==
    [rk \in {RES_FISH, RES_GRAIN, RES_WOOD, RES_CLAY, RES_COPPER, RES_TIN} |->
        CASE rk = RES_FISH -> ITEM_FISH [] rk = RES_GRAIN -> ITEM_GRAIN
          [] rk = RES_WOOD -> ITEM_WOOD [] rk = RES_CLAY -> ITEM_CLAY
          [] rk = RES_COPPER -> ITEM_COPPER [] rk = RES_TIN -> ITEM_TIN]

\* C15: a gather of want >= 0 units of resource r from a pool with
\* pool[r] >= 0 takes take = min(want, floor(pool[r] / 20)); pool[r] drops by
\* exactly 20 * take and stays >= 0, no other pool entry changes; exec_task
\* adds take to the matching inventory slot for fish, grain, wood, clay,
\* copper and tin and leaves the inventory alone for every other resource.
C15_GatherTakesFromPool ==
    (OpsDone("gather") /\ ct_in.op.arg_i >= 0
        /\ ct_in.s.resources_pool[ct_in.op.arg_j] >= 0) =>
        LET rk == ct_in.op.arg_j
            before == ct_in.s.resources_pool
            after == ct_out[1].resources_pool
            take == MinOf({ct_in.op.arg_i, before[rk] \div 20})
        IN  /\ after[rk] = before[rk] - 20 * take
            /\ after[rk] >= 0
            /\ \A r \in Resources \ {rk} : after[r] = before[r]
            /\ \A it \in Items :
                  OpsAfter.inv[it] =
                      IF rk \in DOMAIN C15_Slot /\ C15_Slot[rk] = it
                      THEN OpsBefore.inv[it] + take ELSE OpsBefore.inv[it]
            /\ ct_out[1] = [ct_in.s EXCEPT !.resources_pool = after,
                                           !.agents[1].inv = OpsAfter.inv]

\* three units of tin are wanted, the pool of 45 points yields two
C15_Witness ==
    /\ OpsDone("gather")
    /\ ct_in.op.arg_j = RES_TIN /\ ct_in.op.arg_i = 3
    /\ ct_in.s.resources_pool[RES_TIN] = 45
    /\ ct_out[1].resources_pool[RES_TIN] = 5
    /\ OpsAfter.inv[ITEM_TIN] = OpsBefore.inv[ITEM_TIN] + 2

\* the units craft ITEM N makes of what the inventory holds
C16_Units(inv, item, n) ==
    CASE item = ITEM_POT -> MinOf({n, inv[ITEM_CLAY] \div 2, inv[ITEM_WOOD]})
      [] item = ITEM_BRONZE ->
            MinOf({n, inv[ITEM_COPPER], inv[ITEM_TIN], inv[ITEM_WOOD] \div 2})
      [] item = ITEM_TOOL -> MinOf({n, inv[ITEM_BRONZE]})
      [] OTHER -> 0

\* C16: craft ITEM N attempts N units one by one: a pot takes 2 clay and
\* 1 wood (fatigue + 0.01), a bronze 1 copper, 1 tin and 2 wood (+ 0.02), a
\* tool 1 bronze (+ 0.02); a unit whose ingredients are lacking, an item
\* without recipe and N <= 0 change nothing.
C16_CraftRecipes ==
    OpsDone("craft") =>
        LET item == ct_in.op.arg_j
            n == IF ct_in.op.arg_i > 0 THEN ct_in.op.arg_i ELSE 0
            k == C16_Units(OpsBefore.inv, item, n)
            used == [it \in Items |->
                        CASE item = ITEM_POT /\ it = ITEM_CLAY -> 2 * k
                          [] item = ITEM_POT /\ it = ITEM_WOOD -> k
                          [] item = ITEM_POT /\ it = ITEM_POT -> 0 - k
                          [] item = ITEM_BRONZE /\ it = ITEM_COPPER -> k
                          [] item = ITEM_BRONZE /\ it = ITEM_TIN -> k
                          [] item = ITEM_BRONZE /\ it = ITEM_WOOD -> 2 * k
                          [] item = ITEM_BRONZE /\ it = ITEM_BRONZE -> 0 - k
                          [] item = ITEM_TOOL /\ it = ITEM_BRONZE -> k
                          [] item = ITEM_TOOL /\ it = ITEM_TOOL -> 0 - k
                          [] OTHER -> 0]
            tired == IF item = ITEM_POT THEN 10 * k ELSE 20 * k
        IN  ct_out[1] =
                [ct_in.s EXCEPT
                    !.agents[1].inv = [it \in Items |-> OpsBefore.inv[it] - used[it]],
                    !.agents[1].fatigue = @ + tired]

\* copper 5, tin 5, wood 20 and craft bronze 3 give copper 2, tin 2,
\* wood 14 and bronze 3
C16_Witness ==
    /\ OpsDone("craft")
    /\ ct_in.op.arg_j = ITEM_BRONZE /\ ct_in.op.arg_i = 3
    /\ OpsBefore.inv = Inv(0, 20, 0, 5, 5, 0)
    /\ OpsAfter.inv = Inv(0, 14, 0, 2, 2, 3)
    /\ OpsAfter.fatigue = OpsBefore.fatigue + 60

\* C19: an agent whose hunger exceeds 0.95 after drift, eating and
\* apprenticeship only loses 0.01 health (floor 0) that day; otherwise an
\* agent whose fatigue is at least 0.90 only lowers its fatigue by 0.20
\* (floor 0).  In both cases no task is picked, no trade is made and neither
\* inventory nor pool changes; starvation comes before exhaustion.
C19_ShortCircuits ==
    OpsDone("act") =>
        /\ OpsBefore.hunger > 95 =>
              ct_out[1] = [ct_in.s EXCEPT
                              !.agents[1].health = IF @ - 1 < 0 THEN 0 ELSE @ - 1]
        /\ (OpsBefore.hunger <= 95 /\ OpsBefore.fatigue >= 900) =>
              ct_out[1] = [ct_in.s EXCEPT
                              !.agents[1].fatigue = IF @ - 200 < 0 THEN 0 ELSE @ - 200]

\* an agent both starving and exhausted, with wood to trade, lost health
\* and kept its fatigue
C19_Witness ==
    /\ OpsDone("act")
    /\ OpsBefore.hunger = 96 /\ OpsBefore.fatigue = 950
    /\ OpsBefore.inv[ITEM_WOOD] = 8
    /\ OpsAfter.health = OpsBefore.health - 1
    /\ OpsAfter.fatigue = 950

\* C21: eat changes nothing when hunger <= 0.7; otherwise it consumes
\* exactly one fish if the agent has any (hunger - 0.35), then exactly one
\* grain only if hunger is still > 0.7 and the agent has grain (hunger
\* - 0.30); never more than one fish and one grain, no count goes negative,
\* no other item is touched and hunger stays >= 0.
C21_EatOneFishOneGrain ==
    OpsDone("eat") =>
        LET hungry == OpsBefore.hunger > 70
            fish == IF hungry /\ OpsBefore.inv[ITEM_FISH] > 0 THEN 1 ELSE 0
            grain == IF hungry /\ OpsBefore.hunger - 35 * fish > 70
                        /\ OpsBefore.inv[ITEM_GRAIN] > 0 THEN 1 ELSE 0
        IN  /\ OpsAfter.inv = [OpsBefore.inv EXCEPT ![ITEM_FISH] = @ - fish,
                                                    ![ITEM_GRAIN] = @ - grain]
            /\ OpsAfter.hunger = OpsBefore.hunger - 35 * fish - 30 * grain
            /\ OpsAfter.hunger >= 0
            /\ \A it \in Items : OpsAfter.inv[it] >= 0
            /\ ct_out[1] = [ct_in.s EXCEPT !.agents[1].inv = OpsAfter.inv,
                                           !.agents[1].hunger = OpsAfter.hunger]

\* a hungry agent with fish and grain ate one fish and kept its grain
C21_Witness ==
    /\ OpsDone("eat")
    /\ OpsBefore.hunger = 100
    /\ OpsBefore.inv[ITEM_FISH] = 1 /\ OpsBefore.inv[ITEM_GRAIN] = 3
    /\ OpsAfter.inv[ITEM_FISH] = 0 /\ OpsAfter.inv[ITEM_GRAIN] = 3
    /\ OpsAfter.hunger = 65

\* the inventories a swap for want may leave, as the claim allows it, each
\* with the number of swaps made so far: none, or 2 of an offer for 1 want
C22_Swap(val, p, want) ==
    {p} \cup
    {<<[p[1] EXCEPT ![offer] = @ - 2, ![want] = @ + 1], p[2] + 1>> :
        offer \in {o \in Items :
                     /\ p[1][want] < 3
                     /\ o # want
                     /\ p[1][o] >= 6
                     /\ \A q \in Items : (q # want /\ p[1][q] >= 6) => val[q] <= val[o]
                     /\ val[o] >= val[want]}}

RECURSIVE C22_Trades(_, _, _)
C22_Trades(val, ps, wants) ==
    IF wants = <<>> THEN ps
    ELSE C22_Trades(val, UNION {C22_Swap(val, p, Head(wants)) : p \in ps}, Tail(wants))

RECURSIVE C22_Sum(_, _)
C22_Sum(inv, it) == IF it >= ITEM_MAX THEN 0 ELSE inv[it] + C22_Sum(inv, it + 1)

\* C22: trade swaps for a want of grain, fish, tool, pot (in that order)
\* only if the agent holds < 3 of the want, the offer is another item of
\* which it holds >= 6 and whose valuation in the settlement is maximal
\* among such items, and val[offer] >= val[want]; a swap takes exactly 2 of
\* the offer and adds exactly 1 of the want: no count becomes negative and
\* the total drops by 1 per swap; with no item held >= 6 nothing changes.
C22_TradeSwaps ==
    OpsDone("trade") =>
        LET val == ct_in.s.settlements[1].val
        IN  /\ \E p \in C22_Trades(val, {<<OpsBefore.inv, 0>>},
                                    <<ITEM_GRAIN, ITEM_FISH, ITEM_TOOL, ITEM_POT>>) :
                  /\ OpsAfter.inv = p[1]
                  /\ C22_Sum(OpsAfter.inv, 0) = C22_Sum(OpsBefore.inv, 0) - p[2]
            /\ \A it \in Items : OpsBefore.inv[it] >= 0 => OpsAfter.inv[it] >= 0
            /\ (\A it \in Items : OpsBefore.inv[it] < 6) => ct_out[1] = ct_in.s

\* 9 bronze bought a grain and a fish; the 5 left buy no tool and no pot
C22_Witness ==
    /\ OpsDone("trade")
    /\ OpsBefore.inv = [Agent.inv EXCEPT ![ITEM_BRONZE] = 9]
    /\ OpsAfter.inv = [Agent.inv EXCEPT ![ITEM_BRONZE] = 5, ![ITEM_GRAIN] = 1,
                                         ![ITEM_FISH] = 1]

\* C29: apprenticeship changes an agent's vocation_id only when its age is
\* between 10 and 16 inclusive and its household has a valid parent, and
\* then only to the parent's current vocation_id; for agents younger than
\* 10 or older than 16 it changes nothing, and it never changes another
\* field than the agent's vocation_id.
C29_ApprenticeshipOnlyVocation ==
    OpsDone("apprenticeship") =>
        LET pid == ct_in.s.households[OpsBefore.household_id + 1].parent_id
        IN  /\ ct_out[1] = [ct_in.s EXCEPT !.agents[1].vocation_id = OpsAfter.vocation_id]
            /\ OpsAfter.vocation_id # OpsBefore.vocation_id =>
                  /\ 10 <= OpsBefore.age /\ OpsBefore.age <= 16
                  /\ 0 <= pid /\ pid < Len(ct_in.s.agents)
                  /\ OpsAfter.vocation_id = ct_in.s.agents[pid + 1].vocation_id
            /\ (OpsBefore.age < 10 \/ OpsBefore.age > 16) => ct_out[1] = ct_in.s

\* a farmer of 16 took the vocation of its parent, a smith
C29_Witness ==
    /\ OpsDone("apprenticeship")
    /\ OpsBefore.age = 16 /\ OpsBefore.vocation_id = 0
    /\ ct_in.s.households[1].parent_id = 1
    /\ ct_in.s.agents[2].vocation_id = 2
    /\ OpsAfter.vocation_id = 2

\* ------------------------------------------------------------------------
\* Claims about the days of an agent (checked under Spec)
\* ------------------------------------------------------------------------
\* the season of day d as the claim gives it
C17_Season(d) ==
    LET y == d % 360
    IN  IF y < 90 THEN SEASON_SPRING
        ELSE IF y < 180 THEN SEASON_SUMMER
        ELSE IF y < 270 THEN SEASON_AUTUMN
        ELSE SEASON_WINTER

\* the condition of the rule agent number k - 1 ran a task by on the latest
\* day; its vocation of that moment is the one before role_switching
PickedCond(k) == sim.voc_table[preSwitch[k] + 1].rules[sim.picked[k]].cond

\* C17: season gating: a task selected through a rule whose condition has
\* season == S is executed by sim_step only on days d with season(d) = S,
\* spring for d mod 360 in [0, 90), summer in [90, 180), autumn in
\* [180, 270), winter in [270, 360).
C17_SeasonGating ==
    SimBuilt =>
        \A k \in 1..Len(sim.agents) :
            (sim.picked[k] # 0 /\ PickedCond(k).season_eq # SEASON_ANY) =>
                C17_Season(sim.day) = PickedCond(k).season_eq

\* on a day of winter an agent ran the task of a winter rule
C17_Witness ==
    /\ SimBuilt
    /\ sim.day % 360 >= 270
    /\ \E k \in 1..Len(sim.agents) :
          sim.picked[k] # 0 /\ PickedCond(k).season_eq = SEASON_WINTER

\* no vocation of the run has a rule: no agent ever runs a task
NoRules == \A v \in 1..Len(sim.voc_table) : sim.voc_table[v].rules = <<>>

\* C18: the starvation scenario: an alive agent without fish and grain that
\* never acquires any (the agents of a run without rules) has hunger 1.0
\* from day 5 on, loses exactly 0.01 health on each of these days while its
\* inventory stays as it is, and ends with health 0, dead.
C18_StarvationScenario ==
    (SimBuilt /\ NoRules) =>
        \A k \in 1..Len(sim.agents) :
            /\ sim.agents[k].inv = Agent.inv
            /\ sim.day >= 5 => sim.agents[k].hunger = 100
            /\ sim.agents[k].health =
                  IF sim.day < 5 THEN 100
                  ELSE IF sim.day - 4 >= 100 THEN 0 ELSE 100 - (sim.day - 4)

\* the agent has just died of hunger: the day before it had health 0.01
C18_Witness ==
    /\ SimBuilt /\ NoRules
    /\ sim.day = 104
    /\ sim.agents[1].hunger = 100
    /\ sim.agents[1].health = 0

\* what death leaves as it is
Remains(a) ==
    <<a.health, a.hunger, a.fatigue, a.age, a.inv, a.vocation_id>>

\* C20: death is absorbing: the health of an agent never increases; once
\* health <= 0 every later sim_step leaves the agent's health, hunger,
\* fatigue, age, inventory and vocation_id unchanged; the number of alive
\* agents never increases.
C20_DeathAbsorbing ==
    [][(sim # <<>> /\ sim' # <<>>) =>
          /\ \A k \in 1..Len(sim.agents) :
                /\ sim'.agents[k].health <= sim.agents[k].health
                /\ sim.agents[k].health <= 0 =>
                      Remains(sim'.agents[k]) = Remains(sim.agents[k])
          /\ AliveCount(sim'.agents) <= AliveCount(sim.agents)]_vars

\* days after the death of a child of another vocation than its parent,
\* who lives
C20_Witness ==
    /\ SimBuilt
    /\ sim.day > 110
    /\ \E j, k \in 1..Len(sim.agents) :
          /\ sim.agents[j].health <= 0
          /\ sim.agents[j].age >= 10 /\ sim.agents[j].age <= 16
          /\ sim.agents[k].health > 0
          /\ IsParent(sim, k)
          /\ sim.agents[k].household_id = sim.agents[j].household_id
          /\ sim.agents[k].vocation_id # sim.agents[j].vocation_id
\* ------------------------------------------------------------------------
\* Claims about cond_eval (checked under SpecOps)
\* ------------------------------------------------------------------------
\* an inventory clause "have CMP v" as the claim reads it
C25_Cmp(have, ck, v) ==
    CASE ck = CMP_GT -> have > v
      [] ck = CMP_LT -> have < v
      [] ck = CMP_GE -> have >= v
      [] ck = CMP_LE -> have <= v

\* C25: cond_eval returns true exactly when all present clauses hold: (no
\* hunger gate or hunger > threshold) and (no fatigue gate or fatigue <
\* threshold) and (season_eq is ANY or season(day) = season_eq) and every
\* inventory clause inv[item] CMP value holds and (no prob gate or roll <
\* prob); a condition without clauses is always true.
C25_CondEvalAllClauses ==
    OpsDone("cond_eval") =>
        LET c == ct_in.s.voc_table[1].rules[1].cond
            a == ct_in.s.agents[1]
        IN  ct_out[1] =
                (/\ (~c.has_hunger \/ a.hunger * 10 > c.hunger_threshold)
                 /\ (~c.has_fatigue \/ a.fatigue < c.fatigue_threshold)
                 /\ (c.season_eq = SEASON_ANY \/ C17_Season(ct_in.s.day) = c.season_eq)
                 /\ \A k \in 1..Len(c.inv_item) :
                       C25_Cmp(a.inv[c.inv_item[k]], c.inv_cmp[k], c.inv_value[k])
                 /\ (~c.has_prob \/ ct_in.roll < c.prob))

\* a condition of five kinds of clause that all hold, the roll just below
\* prob
C25_Witness ==
    /\ OpsDone("cond_eval")
    /\ ct_out[1] = TRUE
    /\ LET c == ct_in.s.voc_table[1].rules[1].cond
       IN  /\ c.has_hunger /\ c.has_fatigue /\ c.has_prob
           /\ c.season_eq = SEASON_WINTER
           /\ Len(c.inv_item) = 2
\* ------------------------------------------------------------------------
\* Claims about role_switching (checked under SpecOps)
\* ------------------------------------------------------------------------
\* the agents (k - 1) whose vocation the call changed
Switched ==
    {k \in 1..Len(ct_in.s.agents) :
        ct_out[1].agents[k].vocation_id # ct_in.s.agents[k].vocation_id}

\* the alive of the call and what they hold of an item
C23_Alive == Cardinality({k \in 1..Len(ct_in.s.agents) : ct_in.s.agents[k].health > 0})
RECURSIVE C23_Held(_, _)
C23_Held(it, k) ==
    IF k > Len(ct_in.s.agents) THEN 0
    ELSE (IF ct_in.s.agents[k].health > 0 THEN ct_in.s.agents[k].inv[it] ELSE 0)
         + C23_Held(it, k + 1)
C23_Has(name) == \E v \in 1..Len(ct_in.s.voc_table) : ct_in.s.voc_table[v].name = name
C23_Id(name) ==
    (CHOOSE v \in 1..Len(ct_in.s.voc_table) : ct_in.s.voc_table[v].name = name) - 1

\* the target the claim gives: farmer or fisher first, smith and potter
\* only when neither applies
C23_Target ==
    LET farmer == C23_Has("farmer") /\ C23_Held(ITEM_GRAIN, 1) < 3 * C23_Alive
        fisher == /\ C23_Has("fisher") /\ C23_Held(ITEM_FISH, 1) < 2 * C23_Alive
                  /\ (~farmer \/ C23_Held(ITEM_FISH, 1) < C23_Held(ITEM_GRAIN, 1))
    IN  IF fisher THEN C23_Id("fisher")
        ELSE IF farmer THEN C23_Id("farmer")
        ELSE IF C23_Has("smith") /\ 10 * C23_Held(ITEM_TOOL, 1) < 6 * C23_Alive
             THEN C23_Id("smith")
        ELSE IF C23_Has("potter") /\ 10 * C23_Held(ITEM_POT, 1) < 6 * C23_Alive
             THEN C23_Id("potter")
        ELSE -1

\* C23: role switching chooses its target by preference in the order
\* farmer, fisher, smith, potter: with a farmer vocation and per-capita
\* grain < 3.0 the target is farmer (or fisher, when per-capita fish < 2.0
\* and below per-capita grain), and a shortage of tools (smith) or pots
\* (potter) is the target only when no farmer or fisher target applies.
C23_TargetPreference ==
    OpsDone("role_switching") =>
        \A k \in Switched : ct_out[1].agents[k].vocation_id = C23_Target

\* C24: role_switching changes vocations only on days d with d mod 30 = 0;
\* in one pass every switched agent is alive, has age >= 17 and was not in
\* the target vocation, all switched agents get the same vocation, at most
\* floor(alive / 50) + 1 are switched; nothing else changes, and on every
\* other day nothing at all.
C24_SwitchPass ==
    OpsDone("role_switching") =>
        /\ Switched # {} => ct_in.s.day % 30 = 0
        /\ \A k \in Switched :
              /\ ct_in.s.agents[k].health > 0
              /\ ct_in.s.agents[k].age >= 17
        /\ \A j, k \in Switched :
              ct_out[1].agents[j].vocation_id = ct_out[1].agents[k].vocation_id
        /\ Cardinality(Switched) <= C23_Alive \div 50 + 1
        /\ ct_out[1] =
              [ct_in.s EXCEPT
                  !.agents = [k \in 1..Len(ct_in.s.agents) |->
                                 [ct_in.s.agents[k] EXCEPT
                                     !.vocation_id = ct_out[1].agents[k].vocation_id]]]
        /\ ct_in.s.day % 30 # 0 => ct_out[1] = ct_in.s

\* two adults drew a switch on day 60; the first was switched and the pass
\* stopped at the limit of one
C24_Witness ==
    /\ OpsDone("role_switching")
    /\ ct_in.s.day = 60
    /\ \A k \in {2, 3} :
          /\ ct_in.s.agents[k].age >= 17 /\ ct_in.s.agents[k].health > 0
          /\ ct_in.roll[k] < 50
          /\ ct_in.s.agents[k].vocation_id = 0
    /\ Switched = {2}
    /\ ct_out[1].agents[2].vocation_id # ct_in.s.agents[3].vocation_id

\* ------------------------------------------------------------------------
\* Claims about what choose_task returns (checked under SpecChoose)
\* ------------------------------------------------------------------------
\* the agent of the call has a vocation
C26_HasVocation ==
    /\ 0 <= ct_in.a.vocation_id
    /\ ct_in.a.vocation_id < Len(ct_in.vocations)

\* the condition of rule k of the agent's vocation succeeds
C26_Succeeds(k) ==
    cond_eval(CallVoc.rules[k].cond, [day |-> ct_in.day], ct_in.a, ct_in.roll)

\* the sum of the weights of rules 1..k whose condition succeeds, a weight
\* <= 0 counting as nothing
RECURSIVE C26_Sum(_)
C26_Sum(k) ==
    IF k = 0 THEN 0
    ELSE C26_Sum(k - 1)
         + (IF C26_Succeeds(k) /\ CallVoc.rules[k].weight > 0
            THEN CallVoc.rules[k].weight ELSE 0)

\* C26: choose_task returns no task if and only if the agent has no
\* vocation or the sum of the weights of the rules whose condition succeeds
\* is 0, a weight <= 0 adding nothing; otherwise it returns a task of the
\* agent's own vocation that is named by a rule of positive weight whose
\* condition succeeded.
C26_NoTaskIffNothingEligible ==
    ct_out # <<>> =>
        /\ ct_out.task = <<>>
              <=> (~C26_HasVocation \/ C26_Sum(Len(CallVoc.rules)) = 0)
        /\ ct_out.task # <<>> =>
              /\ \E t \in 1..Len(CallVoc.tasks) : ct_out.task[1] = CallVoc.tasks[t]
              /\ \E k \in 1..Len(CallVoc.rules) :
                    /\ C26_Succeeds(k)
                    /\ CallVoc.rules[k].weight > 0
                    /\ CallVoc.rules[k].task_name = ct_out.task[1].name

\* a task is returned for a vocation one of whose rules succeeds with a
\* weight <= 0 and names the other task, and one of whose rules fails
C26_Witness ==
    /\ ct_out # <<>>
    /\ ct_out.task # <<>>
    /\ \E k \in 1..Len(CallVoc.rules) :
          /\ C26_Succeeds(k)
          /\ CallVoc.rules[k].weight <= 0
          /\ CallVoc.rules[k].task_name # ct_out.task[1].name
    /\ \E k \in 1..Len(CallVoc.rules) : ~C26_Succeeds(k)

\* no task is returned to an agent without a vocation
C26_NoVocation == ct_out # <<>> /\ ~C26_HasVocation /\ ct_out.task = <<>>

\* ------------------------------------------------------------------------
\* Claims about the order of one sim_step (checked under SpecOps)
\* ------------------------------------------------------------------------
C27_Agents == 1..Len(ct_in.s.agents)
C27_Alive(k) == ct_in.s.agents[k].health > 0

\* the gather op of the one task of the vocation agent k enters the day in
C27_Op(k) == ct_in.s.voc_table[ct_in.s.agents[k].vocation_id + 1].tasks[1].ops[1]

\* what agent k holds more of the resource it gathers after the step
C27_Take(k) ==
    ct_out[1].agents[k].inv[C15_Slot[C27_Op(k).arg_j]]
    - ct_in.s.agents[k].inv[C15_Slot[C27_Op(k).arg_j]]

\* the pool of resource rk as the alive agents before agent k leave it: the
\* pool of the day before, renewed, less 20 points for each unit they took
RECURSIVE C27_Left(_, _)
C27_Left(rk, k) ==
    IF k <= 1 THEN Regen(ct_in.s).resources_pool[rk]
    ELSE C27_Left(rk, k - 1)
         - (IF C27_Alive(k - 1) /\ C27_Op(k - 1).arg_j = rk
            THEN 20 * C27_Take(k - 1) ELSE 0)

\* C27: one sim_step advances the day by exactly 1, renews the pool, lets
\* the alive agents act in ascending order of id and then runs role
\* switching: every alive agent takes what it wants or what the renewed
\* pool holds after the takes of the agents of lower id, whichever is less,
\* whatever the agents of higher id want; the dead do nothing; and the
\* vocations after the step are those role switching gives on the new day
\* to the agents as they are after acting.
C27_StepOrder ==
    OpsDone("sim_step") =>
        /\ ct_out[1].day = ct_in.s.day + 1
        /\ \A k \in C27_Agents :
              IF C27_Alive(k)
              THEN C27_Take(k)
                   = MinOf({C27_Op(k).arg_i, C27_Left(C27_Op(k).arg_j, k) \div 20})
              ELSE ct_out[1].agents[k] = ct_in.s.agents[k]
        /\ \A rk \in Resources :
              ct_out[1].resources_pool[rk] = C27_Left(rk, Len(ct_in.s.agents) + 1)
        /\ \E r \in SwitchDraws(ct_out[1]) :
              ct_out[1]
              = role_switching(
                    [ct_out[1] EXCEPT
                        !.agents = [k \in C27_Agents |->
                                      [@[k] EXCEPT !.vocation_id =
                                                      ct_in.s.agents[k].vocation_id]]],
                    r)

\* on day 30 the first and the third agent fish from a pool that holds less
\* than both want: the first takes all it wants, the third gets less than
\* it wants, and the third, having acted as what it was, is switched
C27_Witness ==
    /\ OpsDone("sim_step")
    /\ ct_out[1].day = 30
    /\ C27_Alive(1) /\ C27_Alive(3)
    /\ C27_Op(1).arg_j = RES_FISH /\ C27_Op(3).arg_j = RES_FISH
    /\ C27_Take(1) = C27_Op(1).arg_i
    /\ C27_Take(3) > 0
    /\ C27_Take(3) < C27_Op(3).arg_i
    /\ ct_out[1].agents[3].vocation_id # ct_in.s.agents[3].vocation_id

\* ------------------------------------------------------------------------
\* Claims about the households sim_init_from_cfg makes (checked under SpecOps)
\* ------------------------------------------------------------------------
C28_Households == 1..Len(ct_out[1].households)

\* the agents (as positions, id + 1) of household number h
C28_Members(h) ==
    {k \in 1..Len(ct_out[1].agents) : ct_out[1].agents[k].household_id = h}

\* C28: after initialization there are ceil(agent_count / 5) households,
\* agent i is in household i mod household_count and household h in
\* settlement h mod settlement_count; every household has 1 to 5 members,
\* and its parent_id is the member of the greatest age, the one of lowest
\* index among those of that age.
C28_HouseholdsAtInit ==
    OpsDone("sim_init_from_cfg") =>
        LET n == ct_in.s.agent_count
            hc == Len(ct_out[1].households)
        IN  /\ Len(ct_out[1].agents) = n
            /\ 5 * hc >= n
            /\ 5 * (hc - 1) < n
            /\ Len(ct_out[1].settlements) = ct_in.s.settlement_count
            /\ \A k \in 1..n : ct_out[1].agents[k].household_id = (k - 1) % hc
            /\ \A h \in C28_Households :
                  LET hh == ct_out[1].households[h]
                      p == hh.parent_id + 1
                  IN  /\ hh.id = h - 1
                      /\ hh.settlement_id = (h - 1) % ct_in.s.settlement_count
                      /\ Cardinality(C28_Members(h - 1)) \in 1..5
                      /\ p \in C28_Members(h - 1)
                      /\ \A j \in C28_Members(h - 1) :
                            /\ ct_out[1].agents[j].age <= ct_out[1].agents[p].age
                            /\ ct_out[1].agents[j].age = ct_out[1].agents[p].age => p <= j

\* eleven agents in three households and two settlements: the third
\* household is in the first settlement, a household has four members of
\* which two share the greatest age, and its parent is the first of the two
C28_Witness ==
    /\ OpsDone("sim_init_from_cfg")
    /\ Len(ct_out[1].agents) = 11
    /\ Len(ct_out[1].households) = 3
    /\ Len(ct_out[1].settlements) = 2
    /\ ct_out[1].households[3].settlement_id = 0
    /\ \E h \in C28_Households :
          /\ Cardinality(C28_Members(h - 1)) = 4
          /\ \E j \in C28_Members(h - 1) :
                /\ j > ct_out[1].households[h].parent_id + 1
                /\ ct_out[1].agents[j].age
                      = ct_out[1].agents[ct_out[1].households[h].parent_id + 1].age
          /\ \E j \in C28_Members(h - 1) :
                /\ j < ct_out[1].households[h].parent_id + 1
                /\ ct_out[1].agents[j].age = 17

\* ------------------------------------------------------------------------
\* Claims about the errors of the parser (checked under SpecOps)
\* ------------------------------------------------------------------------
C30_Clauses == ct_in.roll.clauses
C30_Ops == ct_in.roll.ops
C30_InvCount == Cardinality({k \in 1..Len(C30_Clauses) : C30_Clauses[k].inv})

\* C30: a condition of up to four inv clauses is accepted, with all of them
\* kept in order, and a fifth inv clause is a parse error; an unknown
\* clause, an unknown comparator in an inv clause, a comparator other than
\* "hunger >", "fatigue <" and "season ==", an unknown item, tag or
\* resource name and an unknown op are parse errors too: the block yields
\* no vocation table.
C30_ParseErrors ==
    OpsDone("parse") =>
        /\ ct_out[1].err
              <=> \/ C30_InvCount >= 5
                  \/ \E k \in 1..Len(C30_Clauses) : ~C30_Clauses[k].good
                  \/ \E k \in 1..Len(C30_Ops) : ~C30_Ops[k].good
        /\ ct_out[1].err => "table" \notin DOMAIN ct_out[1]
        /\ ~ct_out[1].err =>
              /\ Len(ct_out[1].table) = 1
              /\ Len(ct_out[1].table[1].rules) = 1
              /\ Len(ct_out[1].table[1].rules[1].cond.inv_item) = C30_InvCount
              /\ C30_InvCount <= 4

\* five well-formed inv clauses and nothing else: a parse error
C30_Witness ==
    /\ OpsDone("parse")
    /\ C30_InvCount = 5
    /\ \A k \in 1..Len(C30_Clauses) : C30_Clauses[k].good
    /\ ct_out[1].err

\* four inv clauses and a fifth clause of another kind are accepted
C30_FourAccepted ==
    /\ OpsDone("parse")
    /\ C30_InvCount = 4
    /\ Len(C30_Clauses) = 5
    /\ ~ct_out[1].err

\* ------------------------------------------------------------------------
\* Claims about unknown keywords in a vocation (checked under SpecParse)
\* ------------------------------------------------------------------------
\* the number of tokens up to and including the "}" that closes the group
\* open at position p, depth groups deep; 0 when the stream ends before it
RECURSIVE C31_Close(_, _, _)
C31_Close(ts, p, depth) ==
    IF p >= Len(ts) THEN 0
    ELSE IF ts[p + 1].kind = TK_RBRACE
         THEN IF depth = 1 THEN p + 1 ELSE C31_Close(ts, p + 1, depth - 1)
         ELSE IF ts[p + 1].kind = TK_LBRACE THEN C31_Close(ts, p + 1, depth + 1)
         ELSE C31_Close(ts, p + 1, depth)

\* C31: an unknown keyword in a vocation body is consumed with one balanced
\* { ... } group or one following word and never with the vocation's own
\* closing "}": the body of a vocation that is parsed ends at the "}" that
\* matches its "{", where the parser goes on with the vocations block.
C31_UnknownKeywordSkipped ==
    [][(pstate = "vocs" /\ Len(voc_table') = Len(voc_table) + 1)
          => pos' = C31_Close(toks, pos + 3, 1)]_vars

\* a vocation is parsed whose body ends in an unknown keyword
C31_KeywordLast ==
    /\ pstate = "vocs"
    /\ Len(voc_table) = 1
    /\ pos >= 2
    /\ toks[pos - 1].kind = TK_WORD
    /\ toks[pos - 1].text = "orphan"

\* ------------------------------------------------------------------------
\* Claims about chunk materialization (checked under SpecGen)
\* ------------------------------------------------------------------------
\* C32: a cell materialized by _generate_chunk agrees with the reference
\* functions: each of its 14 densities is the value of world_cell_res0 for
\* the cell's tags and base noise, for every combination of terrain tags
\* and every base noise 0..255; and for a cell of the world its terrain is
\* world_cell_tags(seed, x, y) and its densities are world_cell_res0(seed,
\* x, y, res, tags).
C32_MaterializationAgrees ==
    (ct_in # <<>> /\ ct_out # <<>>) =>
        /\ \A rk \in 0..(RES_MAX - 1) :
              ct_out[1].res[rk] = CellRes0(ct_in.base, rk, ct_in.tags)
        /\ ct_in.at # <<>> =>
              /\ ct_out[1].terrain
                    = world_cell_tags(ct_in.at[1], ct_in.at[2], ct_in.at[3])
              /\ \A rk \in 0..(RES_MAX - 1) :
                    ct_out[1].res[rk]
                    = world_cell_res0(ct_in.at[1], ct_in.at[2], ct_in.at[3], rk,
                                      ct_out[1].terrain)

\* a marsh that is river, hill and forest but no field is materialized with
\* a base noise above 250: plant fiber by the marsh alone, tin 25, copper 40
C32_Witness ==
    /\ ct_in # <<>> /\ ct_out # <<>>
    /\ ct_in.tags = TAG_MARSH + TAG_RIVER + TAG_HILL + TAG_FOREST
    /\ ct_in.base = 251
    /\ ct_out[1].res[RES_PLANT_FIBER] = 70 + 251 \div 3
    /\ ct_out[1].res[RES_TIN] = 25
    /\ ct_out[1].res[RES_COPPER] = 40
    /\ ct_out[1].res[RES_GRAIN] = 0

\* ------------------------------------------------------------------------
\* Claims about regen_loaded (checked under SpecCache)
\* ------------------------------------------------------------------------
\* every density of every resident cell is a byte
C33_Bytes(l) ==
    \A i \in 1..Len(l) : \A rk \in 0..(RES_MAX - 1) : \A idx \in ObsIdx :
        l[i].res[rk][idx] \in 0..255

\* C33: regen_loaded changes only densities of resident chunks: the
\* resident chunks, their order and their terrain stay as they are, no
\* chunk is added or removed; and after any sequence of get_chunk, get_cell
\* and regen_loaded calls every density of every resident cell is in
\* 0..255.
C33_RegenOnlyDensities ==
    [][/\ C33_Bytes(lru')
       /\ lastOp'.kind = "regen" =>
             /\ Len(lru') = Len(lru)
             /\ \A i \in 1..Len(lru) :
                   /\ KeyOf(lru'[i]) = KeyOf(lru[i])
                   /\ lru'[i].terrain = lru[i].terrain
             /\ live_chunks' = live_chunks
             /\ max_chunks' = max_chunks
             /\ cache_seed' = cache_seed]_vars

\* after a regen_loaded pass over two resident chunks a density stands at
\* 255 and another below it has grown
C33_Witness ==
    /\ lastOp.kind = "regen"
    /\ Len(lru) = 2
    /\ \E i \in 1..2, idx \in ObsIdx :
          /\ \E rk \in 0..(RES_MAX - 1) :
                /\ lru[i].res[rk][idx] = 255
                /\ firstMat[KeyOf(lru[i])].res[rk][idx] < 255
          /\ \E rk \in 0..(RES_MAX - 1) :
                /\ lru[i].res[rk][idx] < 255
                /\ lru[i].res[rk][idx] > firstMat[KeyOf(lru[i])].res[rk][idx]

\* ------------------------------------------------------------------------
\* Claims about eviction (checked under SpecEvict)
\* ------------------------------------------------------------------------
\* C34: eviction is invisible: two caches of the same seed and of different
\* max_chunks that are given the same sequence of get_chunk, get_cell and
\* regen_loaded calls return the same terrain and densities at every
\* lookup of a cell.
C34_EvictionInvisible ==
    (lastOp.kind \in {"hit", "miss"} /\ lastOp.idx >= 0) => lastOp.cell = twin.cell

\* ------------------------------------------------------------------------
\* Claims about what sim_step leaves alone (checked under Spec)
\* ------------------------------------------------------------------------
\* what C35 is about: the place and the household of every agent, the
\* settlement and the parent of every household, the settlements, the
\* vocation table (the three counts are the lengths of the sequences)
C35_Frame(s) ==
    [agents |-> [k \in 1..Len(s.agents) |->
                    <<s.agents[k].x, s.agents[k].y, s.agents[k].household_id>>],
     households |-> [h \in 1..Len(s.households) |->
                        <<s.households[h].settlement_id, s.households[h].parent_id>>],
     settlements |-> s.settlements,
     voc_table |-> s.voc_table]

\* C35: sim_step, its move_to and roam ops included, leaves unchanged every
\* agent's (x, y) and household_id, every household's settlement_id and
\* parent_id, every settlement's position and valuations, the vocation
\* table, and the numbers of agents, households and settlements.
C35_StepFrame ==
    [][(SimBuilt /\ sim' # <<>>) => C35_Frame(sim') = C35_Frame(sim)]_vars

\* an agent has just carried out a task with a move_to op
C35_Witness ==
    /\ SimBuilt
    /\ sim.day > 0
    /\ \E k \in 1..Len(sim.agents) :
          /\ sim.picked[k] # 0
          /\ LET v == sim.voc_table[preSwitch[k] + 1]
             IN  \E t \in 1..Len(v.tasks) :
                    /\ v.tasks[t].name = v.rules[sim.picked[k]].task_name
                    /\ \E o \in 1..Len(v.tasks[t].ops) :
                          v.tasks[t].ops[o].kind = OP_MOVE_TO

\* ------------------------------------------------------------------------
\* Claims about the indices a simulator holds (checked under SpecOps)
\* ------------------------------------------------------------------------
\* every index of the simulator s names an element of the list it indexes
C36_Valid(s) ==
    /\ Len(s.voc_table) > 0
    /\ \A k \in 1..Len(s.agents) :
          /\ s.agents[k].household_id \in 0..(Len(s.households) - 1)
          /\ s.agents[k].vocation_id \in 0..(Len(s.voc_table) - 1)
    /\ \A h \in 1..Len(s.households) :
          /\ s.households[h].settlement_id \in 0..(Len(s.settlements) - 1)
          /\ s.households[h].parent_id \in 0..(Len(s.agents) - 1)

\* the calls that hand back a simulator after working on one
C36_Calls == {"sim_step", "role_switching", "apprenticeship", "act", "trade",
              "gather", "craft", "eat"}

\* C36: with a vocation table that is not empty, in every state the
\* simulator reaches each agent's household_id indexes an existing
\* household, each household's settlement_id an existing settlement and
\* its parent_id an existing agent, and each agent's vocation_id is an
\* index of the vocation table: sim_init_from_cfg builds such a simulator
\* and sim_step and the operations it calls keep it one.
C36_IndicesValid ==
    /\ OpsDone("sim_init_from_cfg") => C36_Valid(ct_out[1])
    /\ \A c \in C36_Calls :
          (OpsDone(c) /\ C36_Valid(ct_in.s)) => C36_Valid(ct_out[1])

\* sim_init_from_cfg has built three households in three settlements, and
\* the first agent, whose roll names no vocation of the table, has the
\* default vocation
C36_Witness ==
    /\ OpsDone("sim_init_from_cfg")
    /\ Len(ct_out[1].households) = 3
    /\ Len(ct_out[1].settlements) = 3
    /\ ct_in.roll.rr[1] = 99
    /\ ct_out[1].agents[1].vocation_id = 0
    /\ ct_out[1].households[3].parent_id = 2

\* sim_step has kept the indices of a hamlet in which role_switching moved
\* an agent to another vocation
C36_StepKeeps ==
    /\ OpsDone("sim_step")
    /\ C36_Valid(ct_in.s)
    /\ \E k \in 1..Len(ct_out[1].agents) :
          ct_out[1].agents[k].vocation_id # ct_in.s.agents[k].vocation_id

\* ------------------------------------------------------------------------
\* Claims about the parents of households (checked under Spec)
\* ------------------------------------------------------------------------
\* C37: the vocation_id of an agent that is the parent of its household is
\* the same for the whole run: no sim_step changes it, neither by
\* apprenticeship, which would copy the parent's own vocation onto the
\* parent, nor by role switching.
C37_ParentVocationConstant ==
    [][(SimBuilt /\ sim' # <<>>) =>
          \A k \in 1..Len(sim.agents) :
              IsParent(sim, k) => sim'.agents[k].vocation_id = sim.agents[k].vocation_id]_vars

\* a parent of apprentice age, alive, has lived a day beside a member of
\* its household that is in another vocation
C37_Witness ==
    /\ SimBuilt
    /\ sim.day > 0
    /\ \E j, k \in 1..Len(sim.agents) :
          /\ IsParent(sim, k)
          /\ sim.agents[k].health > 0
          /\ 10 <= sim.agents[k].age /\ sim.agents[k].age <= 16
          /\ j # k
          /\ sim.agents[j].household_id = sim.agents[k].household_id
          /\ sim.agents[j].vocation_id # sim.agents[k].vocation_id

\* ------------------------------------------------------------------------
\* Claims about one agent's day (checked under SpecOps)
\* ------------------------------------------------------------------------
\* the agent holds a fish or a grain when its day begins
C38_Fed == OpsBefore.inv[ITEM_FISH] >= 1 \/ OpsBefore.inv[ITEM_GRAIN] >= 1

\* C38: an alive agent that holds at least one fish or one grain when its
\* daily step begins takes no starvation damage that day: after the needs
\* drift and eat its hunger is at most 0.70, so the branch of hunger > 0.95
\* is not taken and its health is unchanged.
C38_FedNoStarvation ==
    (OpsDone("agent_day") /\ OpsBefore.health > 0 /\ C38_Fed) =>
        /\ eat(NeedsDrift(OpsBefore)).hunger <= 70
        /\ OpsAfter.hunger <= 70
        /\ OpsAfter.health = OpsBefore.health

\* an agent at hunger 1.0 with one grain and no fish has eaten the grain
\* and ends its day at hunger 0.70 with the health it had
C38_Witness ==
    /\ OpsDone("agent_day")
    /\ OpsBefore.health = 1
    /\ OpsBefore.hunger = 100
    /\ OpsBefore.inv[ITEM_FISH] = 0
    /\ OpsBefore.inv[ITEM_GRAIN] = 1
    /\ OpsAfter.hunger = 70
    /\ OpsAfter.health = 1

\* the same agent without food takes the damage and dies
C38_Unfed ==
    /\ OpsDone("agent_day")
    /\ OpsBefore.health = 1
    /\ ~C38_Fed
    /\ OpsAfter.health = 0

====
